---- MODULE Spec2Model ----
(***************************************************************************)
(* Model of the Omega validator (src/src/subnet/validator/validator.py):   *)
(* the per-submission scoring pipeline check_videos_and_calculate_rewards, *)
(* the round driver validate_step and the weight normaliser set_weights.   *)
(*                                                                         *)
(* Real numbers (scores, cosine similarities) are carried in thousandths:  *)
(* 1.0 is 1000, 0.95 is 950, 0.005 is 5.  An embedding is a unit vector in *)
(* the plane, named by its angle in steps of arccos(0.95)/2 (about 9.1     *)
(* degrees), so that the cosine of two embeddings is Cos of the difference *)
(* of their angles.                                                        *)
(***************************************************************************)
EXTENDS Integers, Sequences, FiniteSets, TLC

----------------------------------------------------------------------------
(* Bounds of the model *)

\* longest item list a worker sends
MaxItems == 3
\* self.num_videos, the requested count (8 in the source), scaled down so
\* that the first-N truncation happens within MaxItems
num_videos == 2
\* longest batch the pure batch functions are checked on
MaxBatch == 3
\* registered worker modules
NumWorkers == 3
\* settings.max_allowed_weights (default 512), scaled down
max_allowed_weights == 3
\* uids in the score maps set_weights is checked on
NumUids == 4
\* rounds of validation_loop that are told apart
MaxRounds == 2

----------------------------------------------------------------------------
(* Program constants *)

\* omega/constants.py (imported at validator.py:54-65), in thousandths
MIN_SCORE == 5
FAKE_VIDEO_PUNISHMENT == -5000
SIMILARITY_THRESHOLD == 950
DIFFERENCE_THRESHOLD == 50
MIN_VIDEO_LENGTH == 5
MAX_VIDEO_LENGTH == 120
\* validator.py:69
NO_RESPONSE_MINIMUM == 5
\* self.config.neuron.sample_size, as set by --neuron.sample_size 2
sample_size == 2
\* width of the thread pool that sends the requests
max_workers == 8
\* slots of DOWNLOAD_SEMAPHORE
DOWNLOAD_SLOTS == 5

----------------------------------------------------------------------------
(* Values *)

\* cosine, in thousandths, of k angle steps (k = 2 is exactly 0.95)
CosTable ==
    <<1000, 987, 950, 889, 805, 701, 579, 443, 296, 141,
      -17, -175, -328, -474, -607, -725, -825, -904, -960, -992, -999>>

Abs(x) == IF x < 0 THEN -x ELSE x

\* torch cosine similarity of two embeddings given by their angles
Cos(a, b) == CosTable[Abs(a - b) + 1]

Min(a, b) == IF a < b THEN a ELSE b
Max(a, b) == IF a > b THEN a ELSE b

RECURSIVE SumSeq(_)
SumSeq(s) == IF s = <<>> THEN 0 ELSE Head(s) + SumSeq(Tail(s))

\* ZipKeep with the flags inverted: the rows whose flag is TRUE
RECURSIVE ZipKeepFlagged(_, _)
ZipKeepFlagged(s, flags) ==
    IF s = <<>> \/ flags = <<>> THEN <<>>
    ELSE IF Head(flags) THEN <<Head(s)>> \o ZipKeepFlagged(Tail(s), Tail(flags))
         ELSE ZipKeepFlagged(Tail(s), Tail(flags))

\* the rows of s whose flag is FALSE, for flags no longer than s (Python's
\* `[m for m, f in zip(s, flags) if not f]` stops at the shorter list)
RECURSIVE ZipKeep(_, _)
ZipKeep(s, flags) ==
    IF s = <<>> \/ flags = <<>> THEN <<>>
    ELSE IF Head(flags) THEN ZipKeep(Tail(s), Tail(flags))
         ELSE <<Head(s)>> \o ZipKeep(Tail(s), Tail(flags))

\* embedding angles the workers and the embedding service produce: equal or
\* far apart (the near ones are in BatchAngles)
Angles == {0, 12}
\* embedding angles of the batches the pure batch functions are checked on
BatchAngles == {0, 1, 2, 12}
\* durations end_time - start_time of submitted items
Durations == {4, 120}
\* num_videos values a worker echoes in its response
EchoedNumVideos == {0, 1, num_videos}
\* cosine of a recomputed embedding to the claimed one, in an audit
SimVals == {950, 951}
\* cosine of an item's video embedding to its description embedding
RelVals == {0, 1000}
\* scores the novelty index reports
GlobalVals == {49, 50, 1000}

Items == [id_ok : BOOLEAN, dur : Durations, video : Angles]

SeqsUpTo(S, n) == UNION {[1..k -> S] : k \in 0..n}

----------------------------------------------------------------------------
(* Pure functions of the scoring pipeline *)

\* Python's s[:n] for n >= 0
FirstN(s, n) == SubSeq(s, 1, Min(Len(s), n))

\* indices of the items metadata_check keeps, in order
RECURSIVE MetadataCheckFrom(_, _)
MetadataCheckFrom(vm, i) ==
    IF i > Len(vm) THEN <<>>
    ELSE IF vm[i].dur <= MAX_VIDEO_LENGTH /\ vm[i].dur >= MIN_VIDEO_LENGTH
         THEN <<i>> \o MetadataCheckFrom(vm, i + 1)
         ELSE MetadataCheckFrom(vm, i + 1)

\* metadata_check run on the first num_videos items only
metadata_check_after_cut(vm) == MetadataCheckFrom(FirstN(vm, num_videos), 1)

metadata_check(vm) == MetadataCheckFrom(vm, 1)

\* has_duplicates with every other row compared, not only the later ones
has_duplicates_symmetric(video, i) ==
    \E j \in 1..Len(video) :
        j # i /\ Cos(video[i], video[j]) > SIMILARITY_THRESHOLD

\* (similarity_score > SIMILARITY_THRESHOLD).any() over video_tensor[i + 1:]
has_duplicates(video, i) ==
    \E j \in (i + 1)..Len(video) : Cos(video[i], video[j]) > SIMILARITY_THRESHOLD

RECURSIVE DedupLoop(_, _, _)
DedupLoop(video, i, is_similar) ==
    IF i > Len(video) THEN is_similar
    ELSE DedupLoop(video, i + 1, Append(is_similar, has_duplicates(video, i)))

\* one flag per row: TRUE means the row is a duplicate
deduplicate_videos(video) == DedupLoop(video, 1, <<>>)

\* MaxSimFrom without the maximum: the cosine to the next row only
MaxSimNext(video, i, j) == Cos(video[i], video[j])

\* F.cosine_similarity(video_tensor[[i]], video_tensor[i + 1:]).max()
RECURSIVE MaxSimFrom(_, _, _)
MaxSimFrom(video, i, j) ==
    IF j = Len(video) THEN Cos(video[i], video[j])
    ELSE Max(Cos(video[i], video[j]), MaxSimFrom(video, i, j + 1))

RECURSIVE NoveltyLoop(_, _, _)
NoveltyLoop(video, i, novelty_scores) ==
    IF i > Len(video) - 1 THEN novelty_scores
    ELSE NoveltyLoop(video, i + 1,
                     Append(novelty_scores, 1000 - MaxSimFrom(video, i, i + 1)))

\* for a non-empty batch; the last video is 100% novel
compute_novelty_score_among_batch(video) ==
    Append(NoveltyLoop(video, 1, <<>>), 1000)

\* sum of the scores that are not below DIFFERENCE_THRESHOLD
RECURSIVE compute_final_novelty_score(_)
compute_final_novelty_score(base) ==
    IF base = <<>> THEN 0
    ELSE (IF Head(base) < DIFFERENCE_THRESHOLD THEN 0 ELSE Head(base))
         + compute_final_novelty_score(Tail(base))

\* is_similar that also passes a cosine equal to the threshold
is_similar_or_equal(sim) == sim >= SIMILARITY_THRESHOLD

\* F.cosine_similarity(emb_1, emb_2) > SIMILARITY_THRESHOLD
is_similar(sim) == sim > SIMILARITY_THRESHOLD

\* [min(l, g) for l, g in zip(local, global)]
RECURSIVE ZipMin(_, _)
ZipMin(l, g) ==
    IF l = <<>> \/ g = <<>> THEN <<>>
    ELSE <<Min(Head(l), Head(g))>> \o ZipMin(Tail(l), Tail(g))

\* [score < DIFFERENCE_THRESHOLD for score in scores]
TooSimilar(scores) == [i \in 1..Len(scores) |-> scores[i] < DIFFERENCE_THRESHOLD]

----------------------------------------------------------------------------
(* State *)

\* the modules registered on the subnet are the uids 1..NumWorkers
Workers == 1..NumWorkers

VARIABLES
    ext,                \* the answers the external services give in this run
    responses,          \* per worker: what _get_miner_request returned
    tk,                 \* per worker: the locals of its scoring task
    GPU_SEMAPHORE,      \* free slots of the accelerator semaphore
    DOWNLOAD_SEMAPHORE, \* free slots of the download semaphore
    bound_loop,         \* per semaphore, the event loop it is bound to
    rpc,                \* where validate_step is
    random_sample_ids,  \* the sampled uids, in sampling order
    score_dict,         \* the score map, as <<uid, score>> pairs in dict order
    vote,               \* the call of client.vote, once set_weights has run
    round,              \* number of the round of validation_loop, modulo MaxRounds
    batch,              \* argument of the batch functions: video embeddings
    out                 \* results of the batch functions

roundVars == <<rpc, random_sample_ids, score_dict, vote>>
batchVars == <<batch, out>>
vars == <<ext, responses, tk, GPU_SEMAPHORE, DOWNLOAD_SEMAPHORE, bound_loop,
          rpc, random_sample_ids, score_dict, vote, round, batch, out>>

\* the module-level semaphores as created at import: an asyncio.Semaphore
\* binds itself to the running event loop the first time an acquire has to
\* wait ("this": the loop of the running round; "other": the closed loop of
\* an earlier round)
Unbound == [gpu |-> "unbound", download |-> "unbound"]

\* asyncio.run closes the event loop of the round when validate_step returns:
\* a semaphore bound to it stays bound to it
CloseLoop(b) == [s \in DOMAIN b |-> IF b[s] = "unbound" THEN "unbound" ELSE "other"]

\* a response: no answer (None), an answer without video_metadata, or Videos
NoResponse == [kind |-> "none", video_metadata |-> <<>>, num_videos |-> 0]
MetaNone == [kind |-> "meta_none", video_metadata |-> <<>>, num_videos |-> 0]
Videos(vm, n) == [kind |-> "videos", video_metadata |-> vm, num_videos |-> n]

\* locals of check_videos_and_calculate_rewards before its first statement.
\* metadata, metadata_copy and embeddings hold indices into
\* videos.video_metadata: row i of the embedding batch is the claimed
\* embedding of that item.  random_metadata = 0 is the unbound local.
\* attempts: the candidates popped by get_random_video so far, in order.
\* to_check: metadata_to_check, the items sent to the novelty index.
\* global_novelty_scores: <<>> before get_novelty_scores has returned, then
\* <<"None">> or <<"list", scores>>.
\* total: the sum of line 760-762, before its division.
\* ret: "running", "none" (returned None) or "value" (returned score).
\* did: the calls made and the events seen so far, for the properties.
TaskInit(p) ==
    [pc |-> p, metadata |-> <<>>, check_video |-> FALSE, metadata_copy |-> <<>>,
     random_metadata |-> 0, random_video |-> FALSE, attempts |-> <<>>,
     query_emb |-> 0, embeddings |-> <<>>, local_novelty_scores |-> <<>>,
     to_check |-> <<>>, global_novelty_scores |-> <<>>, novelty_score |-> 0,
     total |-> 0, ret |-> "running", score |-> 0, did |-> {}]

\* `return value`: the locals are gone, the record of the calls made stays
Return(r, value) ==
    [TaskInit("done") EXCEPT !.ret = "value", !.score = value, !.did = r.did]
\* ReturnNone that gives the punishment constant
ReturnNonePunished(r) ==
    [TaskInit("done") EXCEPT !.ret = "value", !.score = FAKE_VIDEO_PUNISHMENT,
                             !.did = r.did]

\* `return None`, also from the `except Exception` handler
ReturnNone(r) == [TaskInit("done") EXCEPT !.ret = "none", !.did = r.did]

Did(r, what) == [r EXCEPT !.did = @ \cup {what}]

video_metadata(t) == responses[t].video_metadata

\* embeddings.video of the rows `rows` of worker t's submission
VideoTensor(t, rows) == [i \in 1..Len(rows) |-> video_metadata(t)[rows[i]].video]

----------------------------------------------------------------------------
(* check_videos_and_calculate_rewards, one action per stretch between two  *)
(* suspension points; the section guarded by GPU_SEMAPHORE is split at     *)
(* each embedding call.                                                    *)

\* AnyInvalidId run after the duration filter and the truncation
AnyInvalidIdAfterFilter(vm) ==
    LET metadata == FirstN(metadata_check(vm), num_videos)
    IN \E i \in 1..Len(metadata) : ~vm[metadata[i]].id_ok

\* any(not is_valid_id(video.video_id) for video in videos.video_metadata)
AnyInvalidId(vm) == \E i \in 1..Len(vm) : ~vm[i].id_ok

\* lines 659-670: the id check, the duration filter and the audit gate
Start(t) ==
    /\ tk[t].pc = "start"
    /\ IF AnyInvalidId(video_metadata(t))
       THEN tk' = [tk EXCEPT ![t] = Return(@, FAKE_VIDEO_PUNISHMENT)]
       ELSE \E cv \in BOOLEAN :
              tk' = [tk EXCEPT ![t] =
                       [Did(Did(@, "gate"), IF cv THEN "check_video" ELSE "gate")
                          EXCEPT
                          !.pc = "get_random_video",
                          !.metadata = FirstN(metadata_check(video_metadata(t)),
                                              num_videos),
                          !.check_video = cv]]
    /\ UNCHANGED <<ext, roundVars, batchVars, round, responses, GPU_SEMAPHORE, DOWNLOAD_SEMAPHORE,
                   bound_loop>>

\* GetRandomVideo without the `if not check_video` branch
GetRandomVideoAlwaysDownload(t) ==
    /\ tk[t].pc = "get_random_video"
    /\ tk' = [tk EXCEPT ![t] =
                [@ EXCEPT !.pc = "loop", !.metadata_copy = tk[t].metadata]]
    /\ UNCHANGED <<ext, roundVars, batchVars, round, responses, GPU_SEMAPHORE, DOWNLOAD_SEMAPHORE,
                   bound_loop>>

\* GetRandomVideo that leaves the audit out: scoring goes on at line 686
GetRandomVideoSkipsAudit(t) ==
    /\ tk[t].pc = "get_random_video"
    /\ tk' = [tk EXCEPT ![t].pc = "deduplicate"]
    /\ UNCHANGED <<ext, roundVars, batchVars, round, responses, GPU_SEMAPHORE, DOWNLOAD_SEMAPHORE,
                   bound_loop>>

\* lines 565-570: random.choice raises IndexError on an empty list
GetRandomVideo(t) ==
    /\ tk[t].pc = "get_random_video"
    /\ IF ~tk[t].check_video
       THEN IF tk[t].metadata = <<>>
            THEN tk' = [tk EXCEPT ![t] = ReturnNone(@)]
            ELSE \E i \in 1..Len(tk[t].metadata) :
                   tk' = [tk EXCEPT ![t] =
                            [@ EXCEPT !.pc = "gpu_wait",
                                      !.random_metadata = tk[t].metadata[i],
                                      !.random_video = FALSE]]
       ELSE tk' = [tk EXCEPT ![t] =
                     [@ EXCEPT !.pc = "loop", !.metadata_copy = tk[t].metadata]]
    /\ UNCHANGED <<ext, roundVars, batchVars, round, responses, GPU_SEMAPHORE, DOWNLOAD_SEMAPHORE,
                   bound_loop>>

\* Pop that leaves the list as it is
PopKeep(s, idx) == s

\* s without its element at position idx (list.pop(idx))
Pop(s, idx) == SubSeq(s, 1, idx - 1) \o SubSeq(s, idx + 1, Len(s))

\* Loop that punishes the submission when every candidate was tried in vain
LoopExhaustedPunishes(t) ==
    /\ tk[t].pc = "loop"
    /\ IF tk[t].metadata_copy = <<>>
       THEN IF tk[t].random_metadata = 0
            THEN tk' = [tk EXCEPT ![t] = ReturnNone(@)]
            ELSE tk' = [tk EXCEPT ![t] = Return(@, FAKE_VIDEO_PUNISHMENT)]
       ELSE \E idx \in 1..Len(tk[t].metadata_copy) :
              tk' = [tk EXCEPT ![t] =
                       [Did(@, "proxy") EXCEPT
                          !.pc = "proxy",
                          !.random_metadata = tk[t].metadata_copy[idx],
                          !.attempts = Append(@, tk[t].metadata_copy[idx]),
                          !.metadata_copy = Pop(@, idx)]]
    /\ UNCHANGED <<ext, roundVars, batchVars, round, responses, GPU_SEMAPHORE, DOWNLOAD_SEMAPHORE,
                   bound_loop>>

\* lines 571-574 and 600-601: the loop test, the pop of a random candidate
\* and the request for a proxy; after the loop, `return random_metadata,
\* None` reads an unbound local when no candidate was ever popped
Loop(t) ==
    /\ tk[t].pc = "loop"
    /\ IF tk[t].metadata_copy = <<>>
       THEN IF tk[t].random_metadata = 0
            THEN tk' = [tk EXCEPT ![t] = ReturnNone(@)]
            ELSE tk' = [tk EXCEPT ![t] =
                          [@ EXCEPT !.pc = "gpu_wait", !.random_video = FALSE]]
       ELSE \E idx \in 1..Len(tk[t].metadata_copy) :
              tk' = [tk EXCEPT ![t] =
                       [Did(@, "proxy") EXCEPT
                          !.pc = "proxy",
                          !.random_metadata = tk[t].metadata_copy[idx],
                          !.attempts = Append(@, tk[t].metadata_copy[idx]),
                          !.metadata_copy = Pop(@, idx)]]
    /\ UNCHANGED <<ext, roundVars, batchVars, round, responses, GPU_SEMAPHORE, DOWNLOAD_SEMAPHORE,
                   bound_loop>>

\* lines 574-578: get_proxy_url returns (a url or None, the same either way)
ProxyReturn(t) ==
    /\ tk[t].pc = "proxy"
    /\ tk' = [tk EXCEPT ![t].pc = "download_wait"]
    /\ UNCHANGED <<ext, roundVars, batchVars, round, responses, GPU_SEMAPHORE, DOWNLOAD_SEMAPHORE,
                   bound_loop>>

\* AcquireDownload of a semaphore that any event loop can wait on
AcquireDownloadAnyLoop(t) ==
    /\ tk[t].pc = "download_wait"
    /\ DOWNLOAD_SEMAPHORE > 0
    /\ DOWNLOAD_SEMAPHORE' = DOWNLOAD_SEMAPHORE - 1
    /\ tk' = [tk EXCEPT ![t] = [Did(@, "download") EXCEPT !.pc = "download"]]
    /\ UNCHANGED <<ext, roundVars, batchVars, round, responses, GPU_SEMAPHORE, bound_loop>>

\* line 580: async with DOWNLOAD_SEMAPHORE.  With a free slot the acquire
\* returns at once.  With none it has to wait: the semaphore binds itself
\* to the running loop and the task waits for a release; bound to the loop
\* of an earlier round it raises RuntimeError, which no handler of
\* get_random_video catches
AcquireDownload(t) ==
    /\ tk[t].pc = "download_wait"
    /\ IF DOWNLOAD_SEMAPHORE > 0
       THEN /\ DOWNLOAD_SEMAPHORE' = DOWNLOAD_SEMAPHORE - 1
            /\ tk' = [tk EXCEPT ![t] = [Did(@, "download") EXCEPT !.pc = "download"]]
            /\ UNCHANGED bound_loop
       ELSE /\ bound_loop.download # "this"
            /\ UNCHANGED DOWNLOAD_SEMAPHORE
            /\ IF bound_loop.download = "unbound"
               THEN /\ bound_loop' = [bound_loop EXCEPT !.download = "this"]
                    /\ UNCHANGED tk
               ELSE /\ tk' = [tk EXCEPT ![t] = ReturnNone(@)]
                    /\ UNCHANGED bound_loop
    /\ UNCHANGED <<ext, roundVars, batchVars, round, responses, GPU_SEMAPHORE>>

\* how a download attempt ends: a video, no video, a timeout, or one of the
\* exceptions IPBlockedException, FakeVideoException, any other
DownloadOutcomes == {"video", "no_video", "timeout", "blocked", "fake", "error"}

\* DownloadResult with FakeVideoException handled like IPBlockedException
DownloadResultFakeAsBlocked(r, outcome) ==
    CASE outcome = "video" -> [r EXCEPT !.pc = "gpu_wait", !.random_video = TRUE]
      [] outcome \in {"no_video", "timeout"} -> [r EXCEPT !.pc = "loop"]
      [] outcome \in {"blocked", "fake"} ->
             [Did(r, IF outcome = "fake" THEN "fake_video" ELSE "blocked")
                EXCEPT !.pc = "gpu_wait", !.random_video = FALSE]
      [] OTHER -> ReturnNone(r)

\* DownloadResult that goes back to the first candidate popped when the
\* source is blocked
DownloadResultBlockedFirst(r, outcome) ==
    CASE outcome = "video" -> [r EXCEPT !.pc = "gpu_wait", !.random_video = TRUE]
      [] outcome \in {"no_video", "timeout"} -> [r EXCEPT !.pc = "loop"]
      [] outcome = "blocked" ->
             [Did(r, "blocked") EXCEPT !.pc = "gpu_wait", !.random_video = FALSE,
                                       !.random_metadata = r.attempts[1]]
      [] outcome = "fake" -> Return(Did(r, "fake_video"), FAKE_VIDEO_PUNISHMENT)
      [] OTHER -> ReturnNone(r)

\* lines 581-603: what get_random_video does with the end of an attempt
DownloadResult(r, outcome) ==
    CASE outcome = "video" -> [r EXCEPT !.pc = "gpu_wait", !.random_video = TRUE]
      [] outcome \in {"no_video", "timeout"} -> [r EXCEPT !.pc = "loop"]
      [] outcome = "blocked" ->
             [Did(r, "blocked") EXCEPT !.pc = "gpu_wait", !.random_video = FALSE]
      [] outcome = "fake" -> Return(Did(r, "fake_video"), FAKE_VIDEO_PUNISHMENT)
      [] OTHER -> ReturnNone(r)

\* lines 580-587: the attempt ends and the semaphore is released
Download(t) ==
    /\ tk[t].pc = "download"
    /\ DOWNLOAD_SEMAPHORE' = DOWNLOAD_SEMAPHORE + 1
    /\ \E outcome \in DownloadOutcomes :
         tk' = [tk EXCEPT ![t] = DownloadResult(@, outcome)]
    /\ UNCHANGED <<ext, roundVars, batchVars, round, responses, GPU_SEMAPHORE, bound_loop>>

\* AcquireGpu without the semaphore
AcquireGpuUnguarded(t) ==
    /\ tk[t].pc = "gpu_wait"
    /\ GPU_SEMAPHORE' = GPU_SEMAPHORE - 1
    /\ tk' = [tk EXCEPT ![t].pc = "random_check"]
    /\ UNCHANGED <<ext, roundVars, batchVars, round, responses, DOWNLOAD_SEMAPHORE, bound_loop>>

\* line 678: async with GPU_SEMAPHORE, which waits, binds and raises as
\* DOWNLOAD_SEMAPHORE does; the handler of line 786 makes the task return None
AcquireGpu(t) ==
    /\ tk[t].pc = "gpu_wait"
    /\ IF GPU_SEMAPHORE > 0
       THEN /\ GPU_SEMAPHORE' = GPU_SEMAPHORE - 1
            /\ tk' = [tk EXCEPT ![t].pc = "random_check"]
            /\ UNCHANGED bound_loop
       ELSE /\ bound_loop.gpu # "this"
            /\ UNCHANGED GPU_SEMAPHORE
            /\ IF bound_loop.gpu = "unbound"
               THEN /\ bound_loop' = [bound_loop EXCEPT !.gpu = "this"]
                    /\ UNCHANGED tk
               ELSE /\ tk' = [tk EXCEPT ![t] = ReturnNone(@)]
                    /\ UNCHANGED bound_loop
    /\ UNCHANGED <<ext, roundVars, batchVars, round, responses, DOWNLOAD_SEMAPHORE>>

\* random_check that passes only what the strict comparison passes too
random_check_strict(random_video, sims, strict) ==
    IF ~random_video
    THEN is_similar(sims[3]) /\ strict[3]
    ELSE /\ is_similar(sims[1]) /\ is_similar(sims[2]) /\ is_similar(sims[3])
         /\ strict[1] /\ strict[2] /\ strict[3]

\* random_check, lines 605-628, on the cosines sims = <<video, audio,
\* description>> of the recomputed embeddings to the claimed ones and the
\* results strict = <<video, audio, description>> of strict_is_similar
\* (torch.allclose): the description alone when no video was obtained
random_check(random_video, sims, strict) ==
    LET is_similar_ ==
            IF ~random_video
            THEN is_similar(sims[3])
            ELSE is_similar(sims[1]) /\ is_similar(sims[2]) /\ is_similar(sims[3])
        strict_is_similar_ ==
            IF ~random_video
            THEN strict[3]
            ELSE strict[1] /\ strict[2] /\ strict[3]
    IN is_similar_

\* AuditVerdict without the return: a failed audit is noted and scoring goes on
AuditVerdictNoReturn(r, passed_check) ==
    [(IF passed_check THEN r ELSE Did(r, "audit_failed"))
       EXCEPT !.pc = "embed_query", !.random_metadata = 0,
              !.random_video = FALSE, !.metadata_copy = <<>>,
              !.attempts = <<>>]

\* lines 679-682: `if not passed_check: return FAKE_VIDEO_PUNISHMENT`;
\* random_meta_and_vid is not read again, so its locals are dropped
AuditVerdict(r, passed_check) ==
    IF passed_check
    THEN [r EXCEPT !.pc = "embed_query", !.random_metadata = 0,
                   !.random_video = FALSE, !.metadata_copy = <<>>,
                   !.attempts = <<>>]
    ELSE Return(Did(r, "audit_failed"), FAKE_VIDEO_PUNISHMENT)

\* lines 679-682: the audit embedding call and its verdict; a failed audit
\* and an error of the embedding service leave the guarded section
RandomCheck(t) ==
    /\ tk[t].pc = "random_check"
    /\ \/ \E sims \in [1..3 -> ext.sims], strict \in ext.strict :
            LET r == Did(tk[t], IF tk[t].random_video THEN "embed" ELSE "embed_text")
                after == AuditVerdict(r, random_check(tk[t].random_video, sims, strict))
            IN /\ tk' = [tk EXCEPT ![t] = after]
               /\ GPU_SEMAPHORE' =
                    IF after.pc = "done" THEN GPU_SEMAPHORE + 1 ELSE GPU_SEMAPHORE
       \/ /\ tk' = [tk EXCEPT ![t] = ReturnNone(@)]
          /\ GPU_SEMAPHORE' = GPU_SEMAPHORE + 1
    /\ UNCHANGED <<ext, roundVars, batchVars, round, responses, DOWNLOAD_SEMAPHORE, bound_loop>>

\* EmbedQuery that keeps GPU_SEMAPHORE when the guarded section is left
EmbedQueryKeepsLock(t) ==
    /\ tk[t].pc = "embed_query"
    /\ UNCHANGED GPU_SEMAPHORE
    /\ \/ \E q \in ext.query_emb :
            tk' = [tk EXCEPT ![t] =
                     [Did(@, "embed_query") EXCEPT !.pc = "deduplicate",
                                                   !.query_emb = q]]
       \/ tk' = [tk EXCEPT ![t] = ReturnNone(@)]
    /\ UNCHANGED <<ext, roundVars, batchVars, round, responses, DOWNLOAD_SEMAPHORE, bound_loop>>

\* line 684: query_emb = self.imagebind.embed_text([videos.query]), then the
\* guarded section ends
EmbedQuery(t) ==
    /\ tk[t].pc = "embed_query"
    /\ GPU_SEMAPHORE' = GPU_SEMAPHORE + 1
    /\ \/ \E q \in ext.query_emb :
            tk' = [tk EXCEPT ![t] =
                     [Did(@, "embed_query") EXCEPT !.pc = "deduplicate",
                                                   !.query_emb = q]]
       \/ tk' = [tk EXCEPT ![t] = ReturnNone(@)]
    /\ UNCHANGED <<ext, roundVars, batchVars, round, responses, DOWNLOAD_SEMAPHORE, bound_loop>>

\* filter_embeddings that keeps as many rows as it should, but the first ones
filter_embeddings_first_rows(embeddings, is_too_similar) ==
    FirstN(embeddings, Len(ZipKeep(embeddings, is_too_similar)))

\* filter_embeddings, lines 534-540, for a mask as long as the batch: the
\* rows of the video, audio and description tensors whose flag is False
filter_embeddings(embeddings, is_too_similar) == ZipKeep(embeddings, is_too_similar)

\* local scores that are sent to the novelty index
ToCheck(rows, local) ==
    ZipKeep(rows, [i \in 1..Len(local) |-> ~(local[i] >= DIFFERENCE_THRESHOLD)])

\* lines 686-719: stack the claimed embeddings (torch.stack raises on an
\* empty list), deduplicate, compute the local novelty and send the items
\* that are not too similar to the novelty index
Deduplicate(t) ==
    /\ tk[t].pc = "deduplicate"
    /\ IF tk[t].metadata = <<>>
       THEN tk' = [tk EXCEPT ![t] = ReturnNone(@)]
       ELSE LET stacked == tk[t].metadata
                metadata_is_similar == deduplicate_videos(VideoTensor(t, stacked))
                metadata == ZipKeep(tk[t].metadata, metadata_is_similar)
                embeddings == filter_embeddings(stacked, metadata_is_similar)
                local == compute_novelty_score_among_batch(VideoTensor(t, embeddings))
                r1 == [Did(tk[t], "deduplicate") EXCEPT
                         !.metadata = metadata, !.embeddings = embeddings]
                r2 == [Did(r1, "local_novelty") EXCEPT
                         !.local_novelty_scores = local]
            IN IF metadata = <<>>
               THEN tk' = [tk EXCEPT ![t] = Return(r1, MIN_SCORE)]
               ELSE IF ToCheck(metadata, local) # <<>>
                    THEN tk' = [tk EXCEPT ![t] =
                                  [Did(r2, "novelty_index") EXCEPT
                                     !.pc = "get_novelty_scores",
                                     !.to_check = ToCheck(metadata, local)]]
                    ELSE tk' = [tk EXCEPT ![t] = ReturnNone(r2)]
    /\ UNCHANGED <<ext, roundVars, batchVars, round, responses, GPU_SEMAPHORE, DOWNLOAD_SEMAPHORE,
                   bound_loop>>

\* what the novelty index answers: None (an error) or a list of scores
NoveltyAnswers == {<<"None">>} \cup {<<"list", g>> : g \in SeqsUpTo(GlobalVals, num_videos)}

\* _get_miner_request raised: the statements before its try (lines 349-351)
\* unpack the registered address split at ':' and convert the port with
\* int(), and raise ValueError on an address of another shape
Raised == [kind |-> "raised", video_metadata |-> <<>>, num_videos |-> 0]

\* what a sampled worker answers in a round: nothing usable, or a submission
RoundResponses ==
    {NoResponse, MetaNone, Raised,
     Videos(<<[id_ok |-> TRUE, dur |-> 120, video |-> 0]>>, num_videos),
     Videos(<<[id_ok |-> FALSE, dur |-> 120, video |-> 0]>>, num_videos),
     Videos(<<[id_ok |-> TRUE, dur |-> 120, video |-> 0],
              [id_ok |-> TRUE, dur |-> 120, video |-> 12]>>, 1)}

\* the external services and the workers, unrestricted, and the setting
\* settings.max_allowed_weights
AnyExt == [sims |-> SimVals, strict |-> [1..3 -> BOOLEAN], query_emb |-> Angles,
           novelty |-> NoveltyAnswers, relevance |-> RelVals,
           answers |-> RoundResponses,
           max_allowed_weights |-> max_allowed_weights]

\* lines 759-766, for count # 0: the aggregate, floored at MIN_SCORE
AggregateScore(description_scores, query_scores, novelty_score, count) ==
    Max((SumSeq(description_scores) + SumSeq(query_scores) + novelty_score)
           \div (3 * count),
        MIN_SCORE)

\* get_novelty_scores, lines 842-869: the answer of the index, or None when
\* the request raised
NoveltyAnswer(t) ==
    /\ tk[t].pc = "get_novelty_scores"
    /\ \E answer \in ext.novelty :
         tk' = [tk EXCEPT ![t] = [@ EXCEPT !.pc = "true_novelty",
                                           !.global_novelty_scores = answer]]
    /\ UNCHANGED <<ext, roundVars, batchVars, round, responses, GPU_SEMAPHORE, DOWNLOAD_SEMAPHORE,
                   bound_loop>>

\* NoAnswer that scores the submission MIN_SCORE
NoAnswerMinScore(r) == Return(Did(r, "index_nothing"), MIN_SCORE)

\* lines 721-723: no answer of the index, or an empty one
NoAnswer(r) == ReturnNone(Did(r, "index_nothing"))

\* NoUniqueVideos that leaves the submission unscored
NoUniqueVideosNone(r) == ReturnNone(r)

\* lines 744-745: `if len(metadata) == 0: return MIN_SCORE`
NoUniqueVideos(r) == Return(r, MIN_SCORE)

\* lines 721-778: true novelty, the novelty filter (a boolean mask of another
\* length than the batch raises IndexError), the relevance scores, the
\* aggregate (division by videos.num_videos, the value the worker echoed)
\* and the upload request
NoveltyReturn(t) ==
    /\ tk[t].pc = "true_novelty"
    /\ LET answer == tk[t].global_novelty_scores
       IN IF answer[1] = "None" \/ answer[2] = <<>>
         THEN tk' = [tk EXCEPT ![t] = NoAnswer(@)]
         ELSE LET true_novelty_scores == ZipMin(tk[t].local_novelty_scores, answer[2])
                  is_too_similar == TooSimilar(true_novelty_scores)
                  metadata == ZipKeep(tk[t].metadata, is_too_similar)
                  embeddings == filter_embeddings(tk[t].embeddings, is_too_similar)
                  video == VideoTensor(t, embeddings)
                  query_relevance_scores ==
                      [i \in 1..Len(video) |-> Cos(video[i], tk[t].query_emb)]
                  novelty_score == compute_final_novelty_score(true_novelty_scores)
                  r == [tk[t] EXCEPT !.metadata = metadata]
              IN IF Len(is_too_similar) # Len(tk[t].embeddings)
                 THEN tk' = [tk EXCEPT ![t] = ReturnNone(r)]
                 ELSE IF metadata = <<>>
                 THEN tk' = [tk EXCEPT ![t] =
                               NoUniqueVideos([r EXCEPT !.embeddings = embeddings])]
                 ELSE IF responses[t].num_videos = 0
                 THEN tk' = [tk EXCEPT ![t] =
                               ReturnNone([r EXCEPT !.embeddings = embeddings])]
                 ELSE \E description_relevance_scores \in [1..Len(video) -> ext.relevance] :
                        tk' = [tk EXCEPT ![t] =
                                 [Did(r, "upload") EXCEPT
                                    !.pc = "upload",
                                    !.embeddings = embeddings,
                                    !.novelty_score = novelty_score,
                                    !.total =
                                        SumSeq(description_relevance_scores)
                                        + SumSeq(query_relevance_scores)
                                        + novelty_score,
                                    !.score = AggregateScore(
                                        description_relevance_scores,
                                        query_relevance_scores,
                                        novelty_score,
                                        responses[t].num_videos)]]
    /\ UNCHANGED <<ext, roundVars, batchVars, round, responses, GPU_SEMAPHORE, DOWNLOAD_SEMAPHORE,
                   bound_loop>>

\* UploadResult that leaves the submission unscored when the upload failed
UploadResultFailureNone(r, upload_result) ==
    IF upload_result
    THEN Return(Did(r, "upload_ok"), r.score)
    ELSE ReturnNone(Did(r, "upload_failed"))

\* lines 779-784: the result of the upload is logged and the score returned
UploadResult(r, upload_result) ==
    Return(Did(r, IF upload_result THEN "upload_ok" ELSE "upload_failed"), r.score)

\* upload_video_metadata, lines 807-840: True, or False when anything raised
UploadReturn(t) ==
    /\ tk[t].pc = "upload"
    /\ \E upload_result \in BOOLEAN :
         tk' = [tk EXCEPT ![t] = UploadResult(@, upload_result)]
    /\ UNCHANGED <<ext, roundVars, batchVars, round, responses, GPU_SEMAPHORE, DOWNLOAD_SEMAPHORE,
                   bound_loop>>

\* one step of worker t's scoring task
Score(t) ==
    \/ Start(t)
    \/ GetRandomVideo(t)
    \/ Loop(t)
    \/ ProxyReturn(t)
    \/ AcquireDownload(t)
    \/ Download(t)
    \/ AcquireGpu(t)
    \/ RandomCheck(t)
    \/ EmbedQuery(t)
    \/ Deduplicate(t)
    \/ NoveltyAnswer(t)
    \/ NoveltyReturn(t)
    \/ UploadReturn(t)

----------------------------------------------------------------------------
(* SpecScore: one submission, any item list and any echoed num_videos,    *)
(* scored by check_videos_and_calculate_rewards                            *)

Submissions == {Videos(vm, n) : vm \in SeqsUpTo(Items, MaxItems), n \in EchoedNumVideos}

InitScore ==
    /\ \E sub \in Submissions :
         responses = [w \in Workers |-> IF w = 1 THEN sub ELSE NoResponse]
    /\ tk = [w \in Workers |-> TaskInit(IF w = 1 THEN "start" ELSE "idle")]
    /\ GPU_SEMAPHORE = 1
    /\ DOWNLOAD_SEMAPHORE = DOWNLOAD_SLOTS
    /\ bound_loop = Unbound
    /\ ext = AnyExt
    /\ rpc = "score"
    /\ random_sample_ids = <<1>>
    /\ score_dict = <<>>
    /\ vote = <<"none">>
    /\ round = 1
    /\ batch = <<>>
    /\ out = <<>>

NextScore == Score(1)

SpecScore == InitScore /\ [][NextScore]_vars

----------------------------------------------------------------------------
(* Claims about check_videos_and_calculate_rewards (SpecScore) *)

Scoring == {t \in Workers : tk[t].pc # "idle"}

\* worker t's submission holds an item whose id fails is_valid_id
HasInvalidId(t) == \E i \in DOMAIN video_metadata(t) : ~video_metadata(t)[i].id_ok

\* the items of worker t's submission whose duration is within the bounds
InDuration(t) ==
    {i \in DOMAIN video_metadata(t) :
        /\ MIN_VIDEO_LENGTH <= video_metadata(t)[i].dur
        /\ video_metadata(t)[i].dur <= MAX_VIDEO_LENGTH}

\* the steps of the pipeline after the audit
AfterAudit == {"embed_query", "deduplicate", "local_novelty", "novelty_index", "upload"}
\* the calls of the embedding service
Embedding == {"embed", "embed_text", "embed_query"}

\* C1: every value check_videos_and_calculate_rewards returns is the
\* punishment constant or a score in [MIN_SCORE, 1.0], so that the
\* `assert r <= 1` of validate_step cannot fire
C1_ScoreInRange ==
    \A t \in Scoring :
        tk[t].ret = "value" =>
            \/ tk[t].score = FAKE_VIDEO_PUNISHMENT
            \/ MIN_SCORE <= tk[t].score /\ tk[t].score <= 1000

\* C3: a submission of valid ids none of whose items survives the duration
\* filter returns MIN_SCORE, for both outcomes of the gate, and never queries
\* the novelty index
C3_NoSurvivorMinScore ==
    \A t \in Scoring :
        (/\ tk[t].pc = "done"
         /\ ~HasInvalidId(t)
         /\ InDuration(t) = {})
        => /\ tk[t].ret = "value"
           /\ tk[t].score = MIN_SCORE
           /\ "novelty_index" \notin tk[t].did

\* C6: once a download attempt raised FakeVideoException the submission has
\* returned FAKE_VIDEO_PUNISHMENT, and it has made no embedding call, no
\* local novelty computation, no novelty-index query and no upload
C6_FakeVideoPunished ==
    \A t \in Scoring :
        "fake_video" \in tk[t].did =>
            /\ tk[t].pc = "done"
            /\ tk[t].ret = "value"
            /\ tk[t].score = FAKE_VIDEO_PUNISHMENT
            /\ tk[t].did \cap (Embedding \cup AfterAudit) = {}

\* C6 witness: an audit of a submission with two candidates met the exception
C6_Witness ==
    \E t \in Scoring :
        /\ "fake_video" \in tk[t].did
        /\ tk[t].ret = "value"
        /\ Cardinality(InDuration(t)) = 2

\* C7: a submission with an invalid id, once past the id check, has returned
\* FAKE_VIDEO_PUNISHMENT without drawing the gate and without any proxy
\* request, download or embedding call
C7_InvalidIdPunishedFirst ==
    \A t \in Scoring :
        (HasInvalidId(t) /\ tk[t].pc # "start") =>
            /\ tk[t].pc = "done"
            /\ tk[t].ret = "value"
            /\ tk[t].score = FAKE_VIDEO_PUNISHMENT
            /\ tk[t].did = {}

\* C7 witness: the only invalid id belongs to an item the filter or the
\* truncation would have dropped
C7_Witness ==
    \E t \in Scoring :
        /\ tk[t].pc = "done"
        /\ InDuration(t) = DOMAIN video_metadata(t)
        /\ Len(video_metadata(t)) > num_videos
        /\ \A i \in DOMAIN video_metadata(t) :
             video_metadata(t)[i].id_ok <=> i <= num_videos

\* C8: once random_check failed the submission has returned
\* FAKE_VIDEO_PUNISHMENT and no later step has run: no query embedding, no
\* deduplication, no novelty computation or query, no upload
C8_AuditFailureStops ==
    \A t \in Scoring :
        "audit_failed" \in tk[t].did =>
            /\ tk[t].pc = "done"
            /\ tk[t].ret = "value"
            /\ tk[t].score = FAKE_VIDEO_PUNISHMENT
            /\ tk[t].did \cap AfterAudit = {}

\* C8 witness: an audit on a downloaded video failed
C8_Witness ==
    \E t \in Scoring : {"audit_failed", "embed"} \subseteq tk[t].did

\* C9 as stated: when the gate does not fire and an item survived the
\* filter, the audit step never punishes the submission
C9_SkippedAuditNeverPunishes ==
    \A t \in Scoring :
        ("gate" \in tk[t].did /\ "check_video" \notin tk[t].did) =>
            "audit_failed" \notin tk[t].did

\* C9 amended: when the gate does not fire there is no proxy request, no
\* download and no media embedding, but the description of one item is
\* embedded and compared: nothing after the audit runs without it, and the
\* submission is punished exactly when that comparison failed
C9_SkippedAuditChecksDescription ==
    \A t \in Scoring :
        ("gate" \in tk[t].did /\ "check_video" \notin tk[t].did) =>
            /\ tk[t].did \cap {"proxy", "download", "embed"} = {}
            /\ (tk[t].pc \in {"embed_query", "deduplicate", "get_novelty_scores",
                              "true_novelty", "upload"}
                  => "embed_text" \in tk[t].did)
            /\ (tk[t].did \cap AfterAudit # {} => "embed_text" \in tk[t].did)
            /\ ("audit_failed" \in tk[t].did => "embed_text" \in tk[t].did)
            /\ ((tk[t].ret = "value" /\ tk[t].score = FAKE_VIDEO_PUNISHMENT)
                  <=> "audit_failed" \in tk[t].did)

\* C9 witness: the gate did not fire and the description check passed
C9_Witness ==
    \E t \in Scoring :
        /\ ~tk[t].check_video
        /\ tk[t].pc = "deduplicate"
        /\ "embed_text" \in tk[t].did

\* C14: the score of a submission that passed the audit and kept items is
\* the sum of its description relevances, query relevances and novelty,
\* divided by 3 and by the count the validator requested (self.num_videos),
\* and floored at MIN_SCORE
C14_ScoreDividedByRequestedCount ==
    \A t \in Scoring :
        tk[t].pc = "upload" =>
            tk[t].score = Max(tk[t].total \div (3 * num_videos), MIN_SCORE)

\* the flags of the calls the audit makes
AuditCalls == {"proxy", "download", "embed", "embed_text"}

\* C23: the upload is requested only by a submission that passed the audit
\* and kept at least one item, only once, and the task then returns the
\* score it had computed, whether the upload succeeded or failed
C23_UploadNeverChangesScore ==
    [][\A t \in Workers :
          tk'[t] # tk[t] =>
            /\ tk'[t].pc = "upload" =>
                  /\ "upload" \notin tk[t].did
                  /\ "upload" \in tk'[t].did
                  /\ tk'[t].did \cap {"embed", "embed_text"} # {}
                  /\ "audit_failed" \notin tk'[t].did
                  /\ tk'[t].metadata # <<>>
                  /\ tk'[t].score >= MIN_SCORE
            /\ "upload" \in tk'[t].did =>
                  \/ tk'[t].pc = "upload"
                  \/ tk[t].pc = "upload"
                  \/ "upload" \in tk[t].did /\ tk[t].pc = "done"
            /\ tk[t].pc = "upload" =>
                  /\ tk'[t].pc = "done"
                  /\ tk'[t].ret = "value"
                  /\ tk'[t].score = tk[t].score
                  /\ tk'[t].did \cap {"upload_ok", "upload_failed"} # {}
    ]_vars

\* C23 witness: the upload failed and the computed score was returned
C23_Witness ==
    /\ tk[1].pc = "done"
    /\ "upload_failed" \in tk[1].did
    /\ tk[1].ret = "value"
    /\ tk[1].score > MIN_SCORE

\* C25: the audit starts only after the intra-batch deduplication: no call
\* of the audit is made before the batch was deduplicated
C25_DedupBeforeAudit ==
    \A t \in Scoring :
        tk[t].did \cap AuditCalls # {} => "deduplicate" \in tk[t].did

\* C25 amended: the steps run in the order filter, audit, deduplication,
\* novelty, aggregation: the batch is deduplicated only after the audit has
\* passed and the query was embedded, and no call of the audit is made once
\* the batch is deduplicated
C25_AuditBeforeDedup ==
    [][\A t \in Workers :
          (tk'[t] # tk[t] /\ tk'[t].pc # "idle") =>
            /\ tk'[t].did # {} => "gate" \in tk'[t].did
            /\ "deduplicate" \in tk'[t].did =>
                  /\ tk'[t].did \cap {"embed", "embed_text"} # {}
                  /\ "audit_failed" \notin tk'[t].did
                  /\ "embed_query" \in tk'[t].did
            /\ "deduplicate" \in tk[t].did =>
                  tk'[t].did \cap AuditCalls = tk[t].did \cap AuditCalls
            /\ "local_novelty" \in tk'[t].did => "deduplicate" \in tk'[t].did
            /\ "novelty_index" \in tk'[t].did => "local_novelty" \in tk'[t].did
            /\ "upload" \in tk'[t].did => "novelty_index" \in tk'[t].did
    ]_vars

\* the filtered batch of worker t's submission
Filtered(t) == FirstN(metadata_check(video_metadata(t)), num_videos)

\* C25 witness: a video was downloaded and audited, and the deduplication
\* that followed dropped an item of the filtered batch
C25_Witness ==
    /\ tk[1].pc = "get_novelty_scores"
    /\ {"download", "embed", "deduplicate"} \subseteq tk[1].did
    /\ Len(tk[1].metadata) < Len(Filtered(1))

\* the index has answered worker t's query with a non-empty list, and the
\* task takes its next step
IndexAnswered(t) ==
    /\ tk[t].pc = "true_novelty"
    /\ tk'[t] # tk[t]
    /\ tk[t].global_novelty_scores[1] = "list"
    /\ tk[t].global_novelty_scores[2] # <<>>

\* is item i of the deduplicated batch kept: it has a score of the index,
\* and min(local, global) is not below the threshold
KeptItem(l, g, i) ==
    i <= Len(g) /\ Min(l[i], g[i]) >= DIFFERENCE_THRESHOLD

\* sum of min(local, global) over the kept items from item i on
RECURSIVE SumKept(_, _, _)
SumKept(l, g, i) ==
    IF i > Len(l) THEN 0
    ELSE (IF KeptItem(l, g, i) THEN Min(l[i], g[i]) ELSE 0) + SumKept(l, g, i + 1)

\* the step after the answer keeps exactly the items whose true novelty is
\* not below the threshold, and sums their true novelty
TrueNoveltyPaired(t) ==
    LET d == tk[t].metadata
        l == tk[t].local_novelty_scores
        g == tk[t].global_novelty_scores[2]
    IN /\ tk'[t].pc = "upload" =>
            /\ \A i \in 1..Len(d) :
                  (\E j \in 1..Len(tk'[t].metadata) : tk'[t].metadata[j] = d[i])
                      <=> KeptItem(l, g, i)
            /\ tk'[t].novelty_score = SumKept(l, g, 1)
       /\ tk'[t].ret = "value" =>
            /\ tk'[t].score = MIN_SCORE
            /\ \A i \in 1..Len(d) : ~KeptItem(l, g, i)

\* the step after the answer scores the submission, whatever the length of
\* the answer (requested count 0 apart, where the aggregate is undefined)
TrueNoveltyScored(t) ==
    responses[t].num_videos # 0 => tk'[t].ret # "none"

\* C26: true novelty is min(local, global) of the same item, exactly the
\* items below the threshold are dropped and the novelty aggregate is the
\* sum over the kept items, also when the answer of the index has another
\* length than the items sent
C26_TrueNoveltyPerItem ==
    [][\A t \in Workers :
          IndexAnswered(t) => TrueNoveltyPaired(t) /\ TrueNoveltyScored(t)]_vars

\* C26, the part that holds: whenever the submission is scored the items are
\* paired, dropped and summed as stated
C26_PairedWhenScored ==
    [][\A t \in Workers : IndexAnswered(t) => TrueNoveltyPaired(t)]_vars

\* C27: the items sent to the index are exactly those with local novelty >=
\* DIFFERENCE_THRESHOLD, in one query per submission; when the index returns
\* None or an empty list the submission is unscored and nothing is uploaded
C27_NoAnswerUnscored ==
    [][\A t \in Workers :
          tk'[t] # tk[t] =>
            /\ tk'[t].pc = "get_novelty_scores" =>
                  /\ "novelty_index" \notin tk[t].did
                  /\ tk'[t].to_check # <<>>
                  /\ \A i \in 1..Len(tk'[t].metadata) :
                        (\E j \in 1..Len(tk'[t].to_check) :
                            tk'[t].to_check[j] = tk'[t].metadata[i])
                        <=> tk'[t].local_novelty_scores[i] >= DIFFERENCE_THRESHOLD
                  /\ \A j \in 1..Len(tk'[t].to_check) :
                        \E i \in 1..Len(tk'[t].metadata) :
                            tk'[t].to_check[j] = tk'[t].metadata[i]
            /\ ( /\ tk[t].pc = "true_novelty"
                 /\ tk[t].to_check # <<>>
                 /\ \/ tk[t].global_novelty_scores[1] = "None"
                    \/ tk[t].global_novelty_scores[2] = <<>> ) =>
                  /\ tk'[t].pc = "done"
                  /\ tk'[t].ret = "none"
                  /\ "upload" \notin tk'[t].did
    ]_vars

\* C27 witness: items were sent, the index returned nothing, and the
\* submission is unscored
C27_Witness ==
    /\ tk[1].pc = "done"
    /\ {"novelty_index", "index_nothing"} \subseteq tk[1].did
    /\ tk[1].ret = "none"

\* C28: when the audit passed and every item of the deduplicated batch has
\* true novelty < DIFFERENCE_THRESHOLD, the submission scores MIN_SCORE
C28_NoNovelItemMinScore ==
    [][\A t \in Workers :
          ( /\ IndexAnswered(t)
            /\ Len(tk[t].global_novelty_scores[2]) >= Len(tk[t].metadata)
            /\ \A i \in 1..Len(tk[t].metadata) :
                  Min(tk[t].local_novelty_scores[i],
                      tk[t].global_novelty_scores[2][i]) < DIFFERENCE_THRESHOLD ) =>
            /\ tk'[t].pc = "done"
            /\ tk'[t].ret = "value"
            /\ tk'[t].score = MIN_SCORE
    ]_vars

\* C28 witness: the index answered, no item survived the novelty filter and
\* the submission scored MIN_SCORE without an upload
C28_Witness ==
    /\ tk[1].pc = "done"
    /\ "novelty_index" \in tk[1].did
    /\ tk[1].did \cap {"upload", "index_nothing"} = {}
    /\ tk[1].ret = "value"
    /\ tk[1].score = MIN_SCORE

\* the program counters of get_random_video's loop
InFetchLoop == {"loop", "proxy", "download_wait", "download"}

\* C29: each candidate of the filtered batch is attempted at most once, a
\* retry takes one of the candidates not yet attempted, the loop is left at
\* the first download that gives a video or when no candidate remains, and
\* the attempts are at most as many as the filtered batch has items
C29_EachCandidateOnce ==
    \A t \in Scoring :
        (tk[t].check_video
           /\ tk[t].pc \in InFetchLoop \cup {"gpu_wait", "random_check"}) =>
            LET a == tk[t].attempts
                m == tk[t].metadata
                c == tk[t].metadata_copy
            IN /\ Len(a) <= Len(m)
               /\ \A i, j \in 1..Len(a) : i # j => a[i] # a[j]
               /\ \A j \in 1..Len(m) :
                     (\E i \in 1..Len(c) : c[i] = m[j])
                         <=> ~(\E i \in 1..Len(a) : a[i] = m[j])
               /\ \A i \in 1..Len(a) : \E j \in 1..Len(m) : m[j] = a[i]
               /\ tk[t].pc \in InFetchLoop => ~tk[t].random_video
               /\ tk[t].pc \in {"proxy", "download_wait", "download"} =>
                     a # <<>> /\ tk[t].random_metadata = a[Len(a)]
               /\ (tk[t].pc \in {"gpu_wait", "random_check"}
                     /\ ~tk[t].random_video /\ "blocked" \notin tk[t].did) =>
                     c = <<>>

\* C29 witness: the first attempt timed out, the second one gave a video
C29_Witness ==
    /\ tk[1].pc = "gpu_wait"
    /\ tk[1].random_video
    /\ Len(tk[1].attempts) = 2
    /\ tk[1].metadata_copy = <<>>

\* a fetch of worker t's audit was blocked and the audit is not over
BlockedAudit(t) ==
    /\ "blocked" \in tk[t].did
    /\ tk[t].pc \in {"gpu_wait", "random_check"}

\* C30: a blocked fetch never punishes by itself, no further candidate is
\* fetched, and the description-only check is made on the first candidate
\* chosen, also when a later candidate's fetch was blocked
C30_BlockedChecksFirstCandidate ==
    \A t \in Scoring :
        "blocked" \in tk[t].did =>
            /\ tk[t].pc \notin InFetchLoop
            /\ (tk[t].ret = "value" /\ tk[t].score = FAKE_VIDEO_PUNISHMENT)
                  => "audit_failed" \in tk[t].did
            /\ BlockedAudit(t) =>
                  /\ ~tk[t].random_video
                  /\ tk[t].random_metadata = tk[t].attempts[1]

\* C30 amended: a blocked fetch never punishes by itself, no further
\* candidate is fetched, and the description-only check is made on the
\* candidate whose fetch was blocked, the last one popped
C30_BlockedChecksBlockedCandidate ==
    \A t \in Scoring :
        "blocked" \in tk[t].did =>
            /\ tk[t].pc \notin InFetchLoop
            /\ (tk[t].ret = "value" /\ tk[t].score = FAKE_VIDEO_PUNISHMENT)
                  => "audit_failed" \in tk[t].did
            /\ BlockedAudit(t) =>
                  /\ ~tk[t].random_video
                  /\ tk[t].random_metadata = tk[t].attempts[Len(tk[t].attempts)]
                  /\ "embed" \notin tk[t].did

\* C30 witness: the first candidate's fetch timed out, the second one's was
\* blocked, and the description of the second is about to be checked
C30_Witness ==
    /\ BlockedAudit(1)
    /\ tk[1].pc = "random_check"
    /\ Len(tk[1].attempts) = 2
    /\ tk[1].random_metadata = tk[1].attempts[2]
    /\ ~tk[1].random_video

\* every candidate of worker t's audit was fetched in vain (a timeout or no
\* video each time, no blocked source) and the loop has ended
ExhaustedAudit(t) ==
    /\ tk[t].check_video
    /\ tk[t].attempts # <<>>
    /\ tk[t].metadata_copy = <<>>
    /\ "blocked" \notin tk[t].did
    /\ ~tk[t].random_video
    /\ tk[t].pc \in {"loop", "gpu_wait", "random_check"}

\* C31: when every candidate was fetched in vain the submission is not
\* punished for it: the loop ends with the description-only check of one
\* item of the batch (the last one tried), and that check alone decides:
\* the scoring goes on, or the submission is punished as a failed audit
C31_ExhaustedFallsBack ==
    [][\A t \in Workers :
         (ExhaustedAudit(t) /\ tk'[t] # tk[t]) =>
            /\ tk[t].pc = "loop" =>
                  /\ tk'[t].pc = "gpu_wait"
                  /\ ~tk'[t].random_video
                  /\ tk'[t].random_metadata = tk[t].attempts[Len(tk[t].attempts)]
                  /\ Len(tk[t].attempts) = Len(tk[t].metadata)
            /\ tk[t].pc = "random_check" =>
                  /\ "embed" \notin tk'[t].did
                  /\ "fake_video" \notin tk'[t].did
                  /\ \/ tk'[t].pc = "embed_query" /\ "embed_text" \in tk'[t].did
                     \/ /\ tk'[t].ret = "value"
                        /\ tk'[t].score = FAKE_VIDEO_PUNISHMENT
                        /\ {"embed_text", "audit_failed"} \subseteq tk'[t].did
                     \/ tk'[t].ret = "none"]_vars

\* C31 witness: two candidates were fetched in vain, and the description of
\* the second is about to be checked
C31_Witness ==
    /\ ExhaustedAudit(1)
    /\ tk[1].pc = "random_check"
    /\ Len(tk[1].attempts) = 2
    /\ tk[1].random_metadata = tk[1].attempts[2]

\* the positions of a task after a filtering step that went through
AfterFiltering == {"get_novelty_scores", "true_novelty", "upload"}

\* C35: after the deduplication and after the novelty filter the metadata
\* list and the embedding batch have the same number of entries, and row i
\* of the batch is the claimed embedding of metadata item i
C35_MetadataAlignedWithEmbeddings ==
    \A t \in Scoring :
        tk[t].pc \in AfterFiltering =>
            /\ Len(tk[t].metadata) = Len(tk[t].embeddings)
            /\ \A i \in DOMAIN tk[t].metadata :
                  VideoTensor(t, tk[t].embeddings)[i]
                     = video_metadata(t)[tk[t].metadata[i]].video

\* C35 witness: of two items with different videos the novelty filter has
\* removed the first, and the upload of the second is under way
C35_Witness ==
    /\ tk[1].pc = "upload"
    /\ Len(video_metadata(1)) = 2
    /\ video_metadata(1)[1].video # video_metadata(1)[2].video
    /\ tk[1].metadata = <<2>>
    /\ tk[1].embeddings = <<2>>

----------------------------------------------------------------------------
(* set_weights and cut_to_max_allowed_weights *)

\* Python's int(num / den) for den # 0: the quotient truncated toward zero
IntDiv(num, den) ==
    IF (num >= 0) = (den > 0)
    THEN Abs(num) \div Abs(den)
    ELSE -(Abs(num) \div Abs(den))

\* the pair put into a list sorted by score, highest first, behind the pairs
\* of equal score (sorted is stable, also with reverse=True)
RECURSIVE InsertByScore(_, _)
InsertByScore(sorted, pair) ==
    IF sorted = <<>> THEN <<pair>>
    ELSE IF Head(sorted)[2] >= pair[2]
         THEN <<Head(sorted)>> \o InsertByScore(Tail(sorted), pair)
         ELSE <<pair>> \o sorted

RECURSIVE SortedScores(_)
SortedScores(d) ==
    IF d = <<>> THEN <<>>
    ELSE InsertByScore(SortedScores(SubSeq(d, 1, Len(d) - 1)), d[Len(d)])

\* lines 126-145
cut_to_max_allowed_weights(d, max) == FirstN(SortedScores(d), max)

SumScores(d) == SumSeq([i \in 1..Len(d) |-> d[i][2]])

\* lines 98-119 for a cut map whose scores do not sum to zero: the <<uid,
\* weight>> pairs
WeightedScores(cut) ==
    [i \in 1..Len(cut) |->
        <<cut[i][1], IntDiv(cut[i][2] * 1000, SumScores(cut))>>]

\* lines 77-123 and 516-521: client.vote is called with the weights; a
\* division by zero is caught by validate_step, which returns without a vote
SetWeights ==
    /\ rpc = "set_weights"
    /\ LET cut == cut_to_max_allowed_weights(score_dict, ext.max_allowed_weights)
       IN IF cut # <<>> /\ SumScores(cut) = 0
          THEN vote' = <<"error">>
          ELSE vote' = <<"vote", WeightedScores(cut)>>
    /\ rpc' = "done"
    /\ UNCHANGED <<ext, responses, tk, GPU_SEMAPHORE, DOWNLOAD_SEMAPHORE,
                   random_sample_ids, score_dict, batchVars, round, bound_loop>>

----------------------------------------------------------------------------
(* validate_step *)

\* _get_miner_request has not returned yet
Pending == [kind |-> "pending", video_metadata |-> <<>>, num_videos |-> 0]

\* the request is in the work queue of the executor: no thread has taken it
Queued == [kind |-> "queued", video_metadata |-> <<>>, num_videos |-> 0]

\* the sequences of k distinct workers: random.sample(list(modules_info), k)
Samples(k) == {o \in [1..k -> Workers] : \A i, j \in 1..k : i # j => o[i] # o[j]}

Sampled == {random_sample_ids[i] : i \in DOMAIN random_sample_ids}

\* lines 430-441: the sample of min(sample_size, registered modules) workers
Sample ==
    /\ rpc = "sample"
    /\ random_sample_ids' \in Samples(Min(sample_size, NumWorkers))
    /\ rpc' = "get_topic"
    /\ UNCHANGED <<ext, responses, tk, GPU_SEMAPHORE, DOWNLOAD_SEMAPHORE,
                   score_dict, vote, batchVars, round, bound_loop>>

\* position of the sampled worker w in the sample
SampleIndex(w) == CHOOSE i \in DOMAIN random_sample_ids : random_sample_ids[i] = w

\* the workers whose request a thread of the executor is running
InFlight == {w \in DOMAIN responses : responses[w] = Pending}

\* lines 443-459: the topic is fetched, or the round ends on the error;
\* executor.map submits one request per sampled worker, in sampling order,
\* and the pool starts a thread for each of the first max_workers of them
GetTopic ==
    /\ rpc = "get_topic"
    /\ \/ /\ rpc' = "dispatch"
          /\ responses' = [w \in DOMAIN responses |->
                             IF w \notin Sampled THEN responses[w]
                             ELSE IF SampleIndex(w) <= max_workers THEN Pending
                             ELSE Queued]
       \/ /\ rpc' = "topic_error"
          /\ UNCHANGED responses
    /\ UNCHANGED <<ext, tk, GPU_SEMAPHORE, DOWNLOAD_SEMAPHORE,
                   random_sample_ids, score_dict, vote, batchVars, round, bound_loop>>

\* SendRequest without the width of the pool
SendRequestUnbounded(w) ==
    /\ rpc = "dispatch"
    /\ w \in Sampled
    /\ responses[w] = Queued
    /\ \A i \in 1..(SampleIndex(w) - 1) : responses[random_sample_ids[i]] # Queued
    /\ responses' = [responses EXCEPT ![w] = Pending]
    /\ UNCHANGED <<ext, tk, GPU_SEMAPHORE, DOWNLOAD_SEMAPHORE, roundVars, batchVars, round,
                   bound_loop>>

\* line 458-459: a thread of the pool that has ended its request takes the
\* next one of the work queue, which is in sampling order
SendRequest(w) ==
    /\ rpc = "dispatch"
    /\ w \in Sampled
    /\ responses[w] = Queued
    /\ \A i \in 1..(SampleIndex(w) - 1) : responses[random_sample_ids[i]] # Queued
    /\ Cardinality(InFlight) < max_workers
    /\ responses' = [responses EXCEPT ![w] = Pending]
    /\ UNCHANGED <<ext, tk, GPU_SEMAPHORE, DOWNLOAD_SEMAPHORE, roundVars, batchVars, round,
                   bound_loop>>

\* lines 334-369: _get_miner_request of worker w returns; every exception
\* of the call and of the validation of the answer gives None, an exception
\* before the try leaves the function
Respond(w) ==
    /\ rpc = "dispatch"
    /\ w \in Sampled
    /\ responses[w] = Pending
    /\ \E answer \in ext.answers : responses' = [responses EXCEPT ![w] = answer]
    /\ UNCHANGED <<ext, tk, GPU_SEMAPHORE, DOWNLOAD_SEMAPHORE, roundVars, batchVars, round,
                   bound_loop>>

\* lines 465-470: the uids, of the sequence ids, whose response is usable
RECURSIVE WorkingMinerUids(_, _)
WorkingMinerUids(ids, resp) ==
    IF ids = <<>> THEN <<>>
    ELSE IF resp[Head(ids)].kind \in {"none", "meta_none"}
         THEN WorkingMinerUids(Tail(ids), resp)
         ELSE <<Head(ids)>> \o WorkingMinerUids(Tail(ids), resp)

working_miner_uids == WorkingMinerUids(random_sample_ids, responses)

Working == {working_miner_uids[i] : i \in DOMAIN working_miner_uids}

\* lines 458-483 and 797-803: all requests have returned (the executor is
\* left when every thread has ended); `[*it]` raises the exception of a
\* request out of validate_step; otherwise one scoring task per usable
\* response is started by asyncio.gather
Collect ==
    /\ rpc = "dispatch"
    /\ \A w \in Sampled : responses[w] \notin {Pending, Queued}
    /\ IF \E w \in Sampled : responses[w] = Raised
       THEN /\ rpc' = "raised"
            /\ UNCHANGED tk
       ELSE /\ tk' = [w \in DOMAIN tk |->
                       IF w \in Working THEN TaskInit("start") ELSE tk[w]]
            /\ rpc' = "score"
    /\ UNCHANGED <<ext, responses, GPU_SEMAPHORE, DOWNLOAD_SEMAPHORE,
                   random_sample_ids, score_dict, vote, batchVars, round, bound_loop>>

\* the rewards that are not None, in the order of the responses
RECURSIVE ValueScores(_, _)
ValueScores(uids, tasks) ==
    IF uids = <<>> THEN <<>>
    ELSE IF tasks[Head(uids)].ret # "value"
         THEN ValueScores(Tail(uids), tasks)
         ELSE <<tasks[Head(uids)].score>> \o ValueScores(Tail(uids), tasks)

\* Rewarded that pairs the rewards that are not None with the first uids
RewardedShifted(uids, tasks) ==
    [i \in 1..Len(ValueScores(uids, tasks)) |->
        <<uids[i], ValueScores(uids, tasks)[i]>>]

\* Rewarded with the floor of a non-responder for a reward that is None
RECURSIVE RewardedNoneFloored(_, _)
RewardedNoneFloored(uids, tasks) ==
    IF uids = <<>> THEN <<>>
    ELSE IF tasks[Head(uids)].ret # "value"
         THEN <<<<Head(uids), NO_RESPONSE_MINIMUM>>>>
                \o RewardedNoneFloored(Tail(uids), tasks)
         ELSE IF tasks[Head(uids)].score <= 1000
              THEN <<<<Head(uids), tasks[Head(uids)].score>>>>
                     \o RewardedNoneFloored(Tail(uids), tasks)
              ELSE <<>>

\* lines 490-495: the rewards that are not None, in the order of the
\* responses, up to the first one that fails `assert r <= 1`
RECURSIVE Rewarded(_, _)
Rewarded(uids, tasks) ==
    IF uids = <<>> THEN <<>>
    ELSE IF tasks[Head(uids)].ret # "value"
         THEN Rewarded(Tail(uids), tasks)
         ELSE IF tasks[Head(uids)].score <= 1000
              THEN <<<<Head(uids), tasks[Head(uids)].score>>>>
                     \o Rewarded(Tail(uids), tasks)
              ELSE <<>>

\* lines 497-502: the minimum reward of the workers that did not respond
RECURSIVE Penalties(_, _)
Penalties(ids, working) ==
    IF ids = <<>> THEN <<>>
    ELSE IF Head(ids) \in working
         THEN Penalties(Tail(ids), working)
         ELSE <<<<Head(ids), NO_RESPONSE_MINIMUM>>>> \o Penalties(Tail(ids), working)

\* Aggregate without the check of lines 511-514 for an empty score map
AggregateNoEmptyCheck ==
    /\ rpc = "score"
    /\ \A w \in Working : tk[w].pc = "done"
    /\ IF \E w \in Working : tk[w].ret = "value" /\ tk[w].score > 1000
       THEN /\ score_dict' = Rewarded(working_miner_uids, tk)
            /\ rpc' = "crashed"
       ELSE /\ score_dict' = Rewarded(working_miner_uids, tk)
                               \o Penalties(random_sample_ids, Working)
            /\ rpc' = "set_weights"
    /\ UNCHANGED <<ext, responses, tk, GPU_SEMAPHORE, DOWNLOAD_SEMAPHORE,
                   random_sample_ids, vote, batchVars, round, bound_loop>>

\* Aggregate that does not wait for the scoring tasks: a task that has not
\* returned counts as unscored
AggregateWithoutGather ==
    /\ rpc = "score"
    /\ IF \E w \in Working : tk[w].ret = "value" /\ tk[w].score > 1000
       THEN /\ score_dict' = Rewarded(working_miner_uids, tk)
            /\ rpc' = "crashed"
       ELSE /\ score_dict' = Rewarded(working_miner_uids, tk)
                               \o Penalties(random_sample_ids, Working)
            /\ rpc' = IF score_dict' = <<>> THEN "empty" ELSE "set_weights"
    /\ UNCHANGED <<ext, responses, tk, GPU_SEMAPHORE, DOWNLOAD_SEMAPHORE,
                   random_sample_ids, vote, batchVars, round, bound_loop>>

\* lines 489-514: gather has returned; the score map is built, unless a
\* reward above 1 raises AssertionError out of validate_step, and an empty
\* map ends the round
Aggregate ==
    /\ rpc = "score"
    /\ \A w \in Working : tk[w].pc = "done"
    /\ IF \E w \in Working : tk[w].ret = "value" /\ tk[w].score > 1000
       THEN /\ score_dict' = Rewarded(working_miner_uids, tk)
            /\ rpc' = "crashed"
       ELSE /\ score_dict' = Rewarded(working_miner_uids, tk)
                               \o Penalties(random_sample_ids, Working)
            /\ rpc' = IF score_dict' = <<>> THEN "empty" ELSE "set_weights"
    /\ UNCHANGED <<ext, responses, tk, GPU_SEMAPHORE, DOWNLOAD_SEMAPHORE,
                   random_sample_ids, vote, batchVars, round, bound_loop>>

----------------------------------------------------------------------------
(* SpecWeights: set_weights on any score map validate_step can build      *)

\* scores of a score map: the punishment constant, the floor of a worker
\* that did not respond, and scores in [MIN_SCORE, 1.0]
MapScores == {FAKE_VIDEO_PUNISHMENT, NO_RESPONSE_MINIMUM, 600, 1000}

\* the sequences of distinct uids
UidOrders == {o \in SeqsUpTo(1..NumUids, NumUids) :
                 \A i, j \in DOMAIN o : i # j => o[i] # o[j]}

\* any score map: its uids in any insertion order, any score for each
InitWeights ==
    /\ \E o \in UidOrders : \E sc \in [DOMAIN o -> MapScores] :
          score_dict = [i \in DOMAIN o |-> <<o[i], sc[i]>>]
    /\ rpc = "set_weights"
    /\ vote = <<"none">>
    /\ round = 1
    /\ random_sample_ids = <<>>
    /\ ext = AnyExt
    /\ responses = [w \in Workers |-> NoResponse]
    /\ tk = [w \in Workers |-> TaskInit("idle")]
    /\ GPU_SEMAPHORE = 1
    /\ DOWNLOAD_SEMAPHORE = DOWNLOAD_SLOTS
    /\ bound_loop = Unbound
    /\ batch = <<>>
    /\ out = <<>>

NextWeights == SetWeights

SpecWeights == InitWeights /\ [][NextWeights]_vars

\* the weights client.vote was called with
VotedWeights == [i \in 1..Len(vote[2]) |-> vote[2][i][2]]

\* C5: the weights submitted to client.vote sum to at most 1000 and are at
\* most max_allowed_weights many
C5_WeightsBounded ==
    vote[1] = "vote" =>
        /\ SumSeq(VotedWeights) <= 1000
        /\ Len(vote[2]) <= max_allowed_weights

\* the floor of num / den, for den # 0
FloorDiv(num, den) == IF den > 0 THEN num \div den ELSE (-num) \div (-den)

\* the uids client.vote was called with
VotedUids == {vote[2][i][1] : i \in DOMAIN vote[2]}

\* position and score of uid u in the score map
PosOf(u) == CHOOSE i \in DOMAIN score_dict : score_dict[i][1] = u
ScoreOf(u) == score_dict[PosOf(u)][2]

\* C20: set_weights keeps the max_allowed_weights entries of highest score,
\* the earlier entry first among equal scores, gives each kept worker the
\* weight floor(score / sum of the kept scores * 1000), and submits every
\* kept worker, those of weight 0 included
C20_KeptHighestFloorWeights ==
    vote # <<"none">> =>
        /\ vote[1] = "vote"
        /\ Len(vote[2]) = Min(Len(score_dict), max_allowed_weights)
        /\ Cardinality(VotedUids) = Len(vote[2])
        /\ \A i \in DOMAIN score_dict : \A k \in VotedUids :
             score_dict[i][1] \notin VotedUids =>
                \/ ScoreOf(k) > score_dict[i][2]
                \/ ScoreOf(k) = score_dict[i][2] /\ PosOf(k) < i
        /\ \A i \in DOMAIN vote[2] :
             vote[2][i][2] =
                FloorDiv(ScoreOf(vote[2][i][1]) * 1000,
                         SumSeq([j \in DOMAIN vote[2] |-> ScoreOf(vote[2][j][1])]))

\* C38: among the workers client.vote is called with, a score at least as
\* high gives a weight at least as high; so no worker that holds the
\* punishment constant gets a larger weight than a worker with a score in
\* [MIN_SCORE, 1.0]
C38_WeightsMonotone ==
    vote[1] = "vote" =>
        \A i, j \in DOMAIN vote[2] :
            ScoreOf(vote[2][i][1]) >= ScoreOf(vote[2][j][1])
               => vote[2][i][2] >= vote[2][j][2]

\* C38, where it holds: when no kept worker holds the punishment constant
\* the weights are monotone in the scores
C38_MonotoneWithoutPunished ==
    (vote[1] = "vote"
       /\ \A i \in DOMAIN vote[2] : ScoreOf(vote[2][i][1]) >= 0) =>
        \A i, j \in DOMAIN vote[2] :
            ScoreOf(vote[2][i][1]) >= ScoreOf(vote[2][j][1])
               => vote[2][i][2] >= vote[2][j][2]

----------------------------------------------------------------------------
(* SpecVote: set_weights with the default of settings.max_allowed_weights  *)
(* on the score maps of a round that sampled as many workers as it takes   *)
(* for ordinary scores to make up for one punishment                       *)

\* ValidatorSettings.max_allowed_weights
DefaultMaxAllowedWeights == 512

\* one punished worker and the workers of score 1.0 that sum to its
\* punishment (neuron.sample_size is configurable)
ZeroSumWorkers == 1 + (-FAKE_VIDEO_PUNISHMENT) \div 1000

\* the punishment constant, the floor of a non-responder and the best score
VoteScores == {FAKE_VIDEO_PUNISHMENT, NO_RESPONSE_MINIMUM, 1000}

InitVote ==
    /\ \E sc \in [1..ZeroSumWorkers -> VoteScores] :
          score_dict = [i \in 1..ZeroSumWorkers |-> <<i, sc[i]>>]
    /\ rpc = "set_weights"
    /\ vote = <<"none">>
    /\ round = 1
    /\ random_sample_ids = <<>>
    /\ ext = [AnyExt EXCEPT !.max_allowed_weights = DefaultMaxAllowedWeights]
    /\ responses = [w \in Workers |-> NoResponse]
    /\ tk = [w \in Workers |-> TaskInit("idle")]
    /\ GPU_SEMAPHORE = 1
    /\ DOWNLOAD_SEMAPHORE = DOWNLOAD_SLOTS
    /\ bound_loop = Unbound
    /\ batch = <<>>
    /\ out = <<>>

NextVote == SetWeights

SpecVote == InitVote /\ [][NextVote]_vars

\* C39: when set_weights has run on a non-empty score map, client.vote was
\* called, once, with a weight for every kept worker
C39_NonEmptyMapVotes ==
    (rpc = "done" /\ score_dict # <<>>) =>
        /\ vote[1] = "vote"
        /\ Len(vote[2]) = Min(Len(score_dict), ext.max_allowed_weights)

\* C39, where it holds: a score map whose kept scores do not sum to zero
\* gets its vote
C39_NonZeroSumVotes ==
    (rpc = "done" /\ score_dict # <<>>
       /\ SumScores(cut_to_max_allowed_weights(score_dict, ext.max_allowed_weights)) # 0) =>
        /\ vote[1] = "vote"
        /\ Len(vote[2]) = Min(Len(score_dict), ext.max_allowed_weights)

----------------------------------------------------------------------------
(* SpecBatch: the batch functions on any ordered batch of video embeddings *)

InitBatch ==
    /\ batch \in SeqsUpTo(BatchAngles, MaxBatch)
    /\ out = <<>>
    /\ ext = AnyExt
    /\ responses = [w \in Workers |-> NoResponse]
    /\ tk = [w \in Workers |-> TaskInit("idle")]
    /\ GPU_SEMAPHORE = 1
    /\ DOWNLOAD_SEMAPHORE = DOWNLOAD_SLOTS
    /\ bound_loop = Unbound
    /\ rpc = "batch"
    /\ random_sample_ids = <<>>
    /\ score_dict = <<>>
    /\ vote = <<"none">>
    /\ round = 1

\* lines 694-696: deduplicate_videos and the filtering by its flags
DeduplicateBatch ==
    /\ rpc = "batch"
    /\ out = <<>>
    /\ LET metadata_is_similar == deduplicate_videos(batch)
       IN out' = <<"deduplicated", metadata_is_similar,
                   ZipKeep(batch, metadata_is_similar)>>
    /\ UNCHANGED <<ext, responses, tk, GPU_SEMAPHORE, DOWNLOAD_SEMAPHORE,
                   roundVars, round, batch, bound_loop>>

\* lines 694-696 once more, on the batch they produced
DeduplicateAgain ==
    /\ rpc = "batch"
    /\ out # <<>>
    /\ out[1] = "deduplicated"
    /\ LET metadata_is_similar == deduplicate_videos(out[3])
       IN out' = <<"deduplicated_again", out[3], metadata_is_similar,
                   ZipKeep(out[3], metadata_is_similar)>>
    /\ UNCHANGED <<ext, responses, tk, GPU_SEMAPHORE, DOWNLOAD_SEMAPHORE,
                   roundVars, round, batch, bound_loop>>

\* line 705: the local novelty of a batch (never empty there, line 701)
NoveltyAmongBatch ==
    /\ rpc = "batch"
    /\ out = <<>>
    /\ batch # <<>>
    /\ out' = <<"novelty", compute_novelty_score_among_batch(batch)>>
    /\ UNCHANGED <<ext, responses, tk, GPU_SEMAPHORE, DOWNLOAD_SEMAPHORE,
                   roundVars, round, batch, bound_loop>>

NextBatch == DeduplicateBatch \/ DeduplicateAgain \/ NoveltyAmongBatch

SpecBatch == InitBatch /\ [][NextBatch]_vars

\* C10: deduplicate_videos flags row i exactly when a later row j > i has
\* cosine similarity to it strictly above SIMILARITY_THRESHOLD; an earlier
\* similar row never flags a row, and of two similar rows the later is kept
C10_DedupFlagsEarlier ==
    (out # <<>> /\ out[1] = "deduplicated") =>
        /\ Len(out[2]) = Len(batch)
        /\ \A i \in 1..Len(batch) :
             out[2][i] <=>
                \E j \in 1..Len(batch) :
                    j > i /\ Cos(batch[i], batch[j]) > SIMILARITY_THRESHOLD
        /\ (Len(batch) = 2 /\ Cos(batch[1], batch[2]) > SIMILARITY_THRESHOLD)
              => out[3] = <<batch[2]>>

\* C10 witness: a row similar to an earlier row only is kept, next to one
\* that is exactly at the threshold
C10_Witness ==
    /\ out # <<>>
    /\ out[1] = "deduplicated"
    /\ batch = <<0, 1, 2>>
    /\ out[2] = <<TRUE, TRUE, FALSE>>

\* C11: deduplication is idempotent: run on the batch it produced, it flags
\* no row and returns that batch, in the same order
C11_DedupIdempotent ==
    (out # <<>> /\ out[1] = "deduplicated_again") =>
        /\ \A i \in DOMAIN out[3] : ~out[3][i]
        /\ Len(out[3]) = Len(out[2])
        /\ out[4] = out[2]

\* C11 witness: the first run dropped rows, the second run saw what was left
C11_Witness ==
    /\ out # <<>>
    /\ out[1] = "deduplicated_again"
    /\ batch = <<0, 1, 2>>
    /\ out[2] = <<2>>

\* C12: one local novelty score per row, in order: for every row but the
\* last, 1 minus the largest cosine to a later row; exactly 1.0 for the last
\* row, also when it is the only one
C12_LocalNovelty ==
    (out # <<>> /\ out[1] = "novelty") =>
        /\ Len(out[2]) = Len(batch)
        /\ out[2][Len(batch)] = 1000
        /\ \A i \in 1..(Len(batch) - 1) :
             /\ \A j \in (i + 1)..Len(batch) : out[2][i] <= 1000 - Cos(batch[i], batch[j])
             /\ \E j \in (i + 1)..Len(batch) : out[2][i] = 1000 - Cos(batch[i], batch[j])

\* C12 witness: the nearest later row is not the next one
C12_Witness ==
    /\ out # <<>>
    /\ out[1] = "novelty"
    /\ batch = <<0, 12, 1>>
    /\ out[2] = <<13, 1000 - Cos(12, 1), 1000>>

----------------------------------------------------------------------------
(* SpecFilter: the candidate filter on any item list, with durations at   *)
(* both ends of the allowed interval                                       *)

\* durations end_time - start_time around the two limits
FilterDurations ==
    {MIN_VIDEO_LENGTH - 1, MIN_VIDEO_LENGTH, MAX_VIDEO_LENGTH, MAX_VIDEO_LENGTH + 1}

FilterItems == [id_ok : {TRUE}, dur : FilterDurations, video : {0}]

InitFilter ==
    /\ \E vm \in SeqsUpTo(FilterItems, MaxItems) :
         responses = [w \in Workers |->
                        IF w = 1 THEN Videos(vm, num_videos) ELSE NoResponse]
    /\ rpc = "filter"
    /\ out = <<>>
    /\ batch = <<>>
    /\ ext = AnyExt
    /\ tk = [w \in Workers |-> TaskInit("idle")]
    /\ GPU_SEMAPHORE = 1
    /\ DOWNLOAD_SEMAPHORE = DOWNLOAD_SLOTS
    /\ bound_loop = Unbound
    /\ random_sample_ids = <<>>
    /\ score_dict = <<>>
    /\ vote = <<"none">>
    /\ round = 1

\* line 665: metadata_check(videos.video_metadata)[:input_synapse.num_videos],
\* as indices into videos.video_metadata
CandidateFilter ==
    /\ rpc = "filter"
    /\ out = <<>>
    /\ out' = <<"filtered", FirstN(metadata_check(video_metadata(1)), num_videos)>>
    /\ UNCHANGED <<ext, responses, tk, GPU_SEMAPHORE, DOWNLOAD_SEMAPHORE,
                   roundVars, round, batch, bound_loop>>

NextFilter == CandidateFilter

SpecFilter == InitFilter /\ [][NextFilter]_vars

\* C13: the filter keeps the items whose duration lies in the closed
\* interval [MIN_VIDEO_LENGTH, MAX_VIDEO_LENGTH], in their order, and of
\* those the first num_videos: a rejected item takes no slot
C13_CandidateFilter ==
    (out # <<>> /\ out[1] = "filtered") =>
        LET kept == out[2]
            K == {kept[k] : k \in DOMAIN kept}
        IN /\ Len(kept) = Min(Cardinality(InDuration(1)), num_videos)
           /\ K \subseteq InDuration(1)
           /\ \A k, l \in DOMAIN kept : k < l => kept[k] < kept[l]
           /\ \A i \in InDuration(1) \ K : \A k \in K : k < i
           /\ \A i \in DOMAIN video_metadata(1) :
                /\ video_metadata(1)[i].dur = MAX_VIDEO_LENGTH => i \in InDuration(1)
                /\ video_metadata(1)[i].dur = MAX_VIDEO_LENGTH + 1 => i \notin K

\* C13 witness: the first item is one second too long, and num_videos items
\* at the two limits behind it are all kept
C13_Witness ==
    /\ out # <<>>
    /\ out[1] = "filtered"
    /\ Len(video_metadata(1)) = num_videos + 1
    /\ video_metadata(1)[1].dur = MAX_VIDEO_LENGTH + 1
    /\ video_metadata(1)[2].dur = MAX_VIDEO_LENGTH
    /\ video_metadata(1)[3].dur = MIN_VIDEO_LENGTH
    /\ Len(out[2]) = num_videos

----------------------------------------------------------------------------
(* SpecAudit: random_check run twice on the same recomputed embeddings,   *)
(* with any two results of the strict comparisons                          *)

InitAudit ==
    /\ \E random_video \in BOOLEAN, sims \in [1..3 -> SimVals] :
         \E strict1, strict2 \in [1..3 -> BOOLEAN] :
            batch = <<random_video, sims, strict1, strict2>>
    /\ rpc = "audit"
    /\ out = <<>>
    /\ ext = AnyExt
    /\ responses = [w \in Workers |-> NoResponse]
    /\ tk = [w \in Workers |-> TaskInit("idle")]
    /\ GPU_SEMAPHORE = 1
    /\ DOWNLOAD_SEMAPHORE = DOWNLOAD_SLOTS
    /\ bound_loop = Unbound
    /\ random_sample_ids = <<>>
    /\ score_dict = <<>>
    /\ vote = <<"none">>
    /\ round = 1

\* line 679: passed_check = await self.random_check(random_meta_and_vid), in
\* two runs that differ in the strict comparisons only
AuditTwice ==
    /\ rpc = "audit"
    /\ out = <<>>
    /\ out' = <<"audited", random_check(batch[1], batch[2], batch[3]),
                random_check(batch[1], batch[2], batch[4])>>
    /\ UNCHANGED <<ext, responses, tk, GPU_SEMAPHORE, DOWNLOAD_SEMAPHORE,
                   roundVars, round, batch, bound_loop>>

NextAudit == AuditTwice

SpecAudit == InitAudit /\ [][NextAudit]_vars

\* C24: two runs of random_check that agree on every loose comparison give
\* the same verdict, whatever the strict comparisons yield
C24_StrictNeverGates ==
    (out # <<>> /\ out[1] = "audited") => out[2] = out[3]

\* C24 witness: a downloaded video passes every loose comparison; the strict
\* comparisons all fail in one run and all pass in the other
C24_Witness ==
    /\ out # <<>>
    /\ out[1] = "audited"
    /\ batch[1]
    /\ out[2]
    /\ \A i \in 1..3 : ~batch[3][i] /\ batch[4][i]

\* the comparisons random_check has at hand: all three with a video, the
\* description alone without
AvailableModalities(random_video) == IF random_video THEN 1..3 ELSE {3}

\* C32: random_check passes exactly when the cosine of every available
\* modality is strictly above SIMILARITY_THRESHOLD
C32_PassesIffAllAbove ==
    (out # <<>> /\ out[1] = "audited") =>
        (out[2] <=> \A i \in AvailableModalities(batch[1]) :
                       batch[2][i] > SIMILARITY_THRESHOLD)

\* C32 witness: with a video, the video and the audio are above the
\* threshold and the description is exactly at it: the audit fails
C32_Witness ==
    /\ out # <<>>
    /\ out[1] = "audited"
    /\ batch[1]
    /\ batch[2] = <<SIMILARITY_THRESHOLD + 1, SIMILARITY_THRESHOLD + 1,
                    SIMILARITY_THRESHOLD>>
    /\ ~out[2]

----------------------------------------------------------------------------
(* SpecRound: one round of validate_step over the registered workers, the *)
(* scoring tasks of the responding workers running concurrently           *)

\* the external services as they answer in a round
RoundExt ==
    [sims |-> SimVals, strict |-> {[i \in 1..3 |-> b] : b \in BOOLEAN},
     query_emb |-> {0},
     novelty |-> {<<"None">>, <<"list", <<1000>>>>, <<"list", <<1000, 1000>>>>},
     relevance |-> {1000}, answers |-> RoundResponses,
     max_allowed_weights |-> max_allowed_weights]

InitRound ==
    /\ rpc = "sample"
    /\ random_sample_ids = <<>>
    /\ score_dict = <<>>
    /\ vote = <<"none">>
    /\ round = 1
    /\ ext = RoundExt
    /\ responses = [w \in Workers |-> NoResponse]
    /\ tk = [w \in Workers |-> TaskInit("idle")]
    /\ GPU_SEMAPHORE = 1
    /\ DOWNLOAD_SEMAPHORE = DOWNLOAD_SLOTS
    /\ bound_loop = Unbound
    /\ batch = <<>>
    /\ out = <<>>

NextRound ==
    \/ Sample
    \/ GetTopic
    \/ \E w \in Workers : Respond(w)
    \/ Collect
    \/ \E t \in Workers : Score(t)
    \/ Aggregate
    \/ SetWeights

SpecRound == InitRound /\ [][NextRound]_vars

\* the tasks inside the section guarded by GPU_SEMAPHORE
InGuardedSection == {t \in Workers : tk[t].pc \in {"random_check", "embed_query"}}

\* C2: at most one scoring task is inside the accelerator-guarded section
\* (the audit embedding of random_check, the query encoding of embed_text)
C2_OneEmbeddingAtATime == Cardinality(InGuardedSection) <= 1

\* C2 witness: one task is in the guarded section while another waits for it
C2_Witness ==
    \E t, u \in Workers :
        /\ tk[t].pc = "embed_query"
        /\ tk[u].pc = "gpu_wait"
        /\ GPU_SEMAPHORE = 0

\* the sampled workers that gave no usable response
NonResponders == {w \in Sampled : responses[w].kind \in {"none", "meta_none"}}

\* C4: once a round has reached aggregation, every sampled worker without a
\* usable response is in the score map with exactly NO_RESPONSE_MINIMUM
C4_NonRespondersFloored ==
    rpc \in {"set_weights", "done", "empty", "crashed"} =>
        \A w \in NonResponders :
            \E i \in DOMAIN score_dict : score_dict[i] = <<w, NO_RESPONSE_MINIMUM>>

\* the uids that have an entry in the score map
Scored == {score_dict[i][1] : i \in DOMAIN score_dict}

\* validate_step has built its score map and gone on
Aggregated == rpc \in {"empty", "set_weights", "done"}

\* C15: a worker that responded and whose submission came out unscored has
\* no entry in the score map, neither a score nor the floor; every other
\* sampled worker has its own entry: its score, or the floor if it did not
\* respond
C15_UnscoredOmitted ==
    Aggregated =>
        /\ \A w \in Working : tk[w].ret = "none" => w \notin Scored
        /\ \A w \in Working :
             tk[w].ret = "value" =>
                \E i \in DOMAIN score_dict : score_dict[i] = <<w, tk[w].score>>
        /\ \A w \in NonResponders :
             \E i \in DOMAIN score_dict : score_dict[i] = <<w, NO_RESPONSE_MINIMUM>>
        /\ Len(score_dict) = Cardinality(Scored)
        /\ Scored \subseteq Sampled

\* C15 witness: one worker came out unscored after running its pipeline,
\* next to another sampled worker that has an entry
C15_Witness ==
    /\ rpc = "set_weights"
    /\ \E w \in Working : tk[w].ret = "none" /\ tk[w].did # {}
    /\ Scored # {}

\* C16: the failure of one sampled worker's request gives no response for
\* that worker only: the round goes on, and every sampled worker with a
\* usable response has its submission scored
C16_WorkerFailureIsolated ==
    rpc \notin {"sample", "get_topic", "topic_error", "dispatch"} =>
        /\ rpc # "raised"
        /\ \A w \in Sampled : responses[w].kind = "videos" => tk[w].pc # "idle"

\* C17: a round whose score map is empty ends without a call of
\* client.vote, and client.vote is never called with no uid
C17_EmptyMapNoVote ==
    /\ rpc = "empty" => (score_dict = <<>> /\ vote = <<"none">>)
    /\ rpc \in {"set_weights", "done"} => score_dict # <<>>
    /\ vote[1] = "vote" => vote[2] # <<>>

\* C17 witness: every sampled worker responded and every submission came
\* out unscored
C17_Witness ==
    /\ rpc = "empty"
    /\ Working = Sampled
    /\ \A w \in Working : tk[w].ret = "none"

\* worker t's scoring task ends in this step
Exit(t) == tk[t].pc \notin {"idle", "done"} /\ tk'[t].pc = "done"

\* the step is one of the `return` statements of a value that come before
\* the upload: an invalid id (line 662), a fabricated video (675), a failed
\* audit (682), no item left by the deduplication (702) or by the novelty
\* filter (745)
ValueReturn(t) ==
    \/ tk[t].pc = "start"
    \/ tk[t].pc = "download" /\ "fake_video" \in tk'[t].did
    \/ tk[t].pc = "random_check" /\ "audit_failed" \in tk'[t].did
    \/ /\ tk[t].pc = "deduplicate"
       /\ "deduplicate" \in tk'[t].did
       /\ "local_novelty" \notin tk'[t].did
    \/ /\ tk[t].pc = "true_novelty"
       /\ tk[t].global_novelty_scores[1] = "list"
       /\ Len(tk[t].global_novelty_scores[2]) >= Len(tk[t].embeddings)
       /\ \A i \in DOMAIN tk[t].embeddings :
             \/ tk[t].local_novelty_scores[i] < DIFFERENCE_THRESHOLD
             \/ tk[t].global_novelty_scores[2][i] < DIFFERENCE_THRESHOLD

\* the step of worker t leaves the round and the other tasks as they are
StaysInTask(t) ==
    /\ rpc = "score"
    /\ UNCHANGED <<roundVars, responses>>
    /\ \A u \in Workers \ {t} : tk'[u] = tk[u]

\* C33: a scoring task that ends otherwise than by one of its `return`
\* statements of a value ended by an error, the failure of the upload
\* included: its result is None, and the round and the other tasks are
\* left as they are
C33_AnyErrorUnscored ==
    [][\A t \in Workers :
         Exit(t) =>
            /\ StaysInTask(t)
            /\ IF ValueReturn(t) \/ (tk[t].pc = "upload" /\ "upload_ok" \in tk'[t].did)
               THEN tk'[t].ret = "value"
               ELSE tk'[t].ret = "none"]_vars

\* C33 amended: the same, except that the failure of the upload leaves the
\* submission its computed score
C33_ErrorUnscoredButUpload ==
    [][\A t \in Workers :
         Exit(t) =>
            /\ StaysInTask(t)
            /\ IF ValueReturn(t)
               THEN tk'[t].ret = "value"
               ELSE IF tk[t].pc = "upload"
               THEN tk'[t].ret = "value" /\ tk'[t].score = tk[t].score
               ELSE tk'[t].ret = "none"]_vars

\* C33 witness: the round has reached aggregation; one worker's task ended
\* by an error before any embedding was computed, another worker's
\* submission was scored and is in the score map
C33_Witness ==
    /\ rpc = "set_weights"
    /\ \E t, u \in Working :
         /\ tk[t].ret = "none"
         /\ "gate" \in tk[t].did
         /\ tk[t].did \cap {"embed", "embed_text", "embed_query"} = {}
         /\ tk[u].ret = "value"
         /\ tk[u].score > MIN_SCORE
         /\ "upload_failed" \in tk[u].did
         /\ \E i \in DOMAIN score_dict : score_dict[i] = <<u, tk[u].score>>

\* the positions at which a task is suspended on a request over the
\* network: the proxy, the download, the novelty index, the upload
NetworkIO == {"proxy", "download", "get_novelty_scores", "upload"}

\* C34: every permit of GPU_SEMAPHORE that is taken belongs to a task that
\* is at one of the embedding calls of the guarded section, so no task
\* suspended on the network holds it
C34_LockNotHeldOverNetwork ==
    /\ 1 - GPU_SEMAPHORE = Cardinality(InGuardedSection)
    /\ \A t \in Workers : tk[t].pc \in NetworkIO => t \notin InGuardedSection

\* C34 witness: one task has left the guarded section and waits for its
\* upload while another task holds the semaphore for its audit
C34_Witness ==
    \E t, u \in Workers :
        /\ tk[t].pc = "upload"
        /\ tk[u].pc = "random_check"
        /\ GPU_SEMAPHORE = 0

\* C37: every entry of the score map of a responding worker holds the
\* result of the scoring task of that worker's own response; every other
\* entry is the floor of a sampled worker that did not respond
C37_ScoreOfOwnResponse ==
    rpc \in {"empty", "set_weights", "done", "crashed"} =>
        \A i \in DOMAIN score_dict :
            LET u == score_dict[i][1]
            IN IF u \in Working
               THEN tk[u].ret = "value" /\ score_dict[i][2] = tk[u].score
               ELSE u \in NonResponders /\ score_dict[i][2] = NO_RESPONSE_MINIMUM

\* C37 witness: of two responding workers the first came out unscored and
\* the second was scored; the only entry of the score map is the second's
C37_Witness ==
    /\ rpc = "set_weights"
    /\ Len(working_miner_uids) = 2
    /\ tk[working_miner_uids[1]].ret = "none"
    /\ tk[working_miner_uids[2]].ret = "value"
    /\ score_dict = <<<<working_miner_uids[2], tk[working_miner_uids[2]].score>>>>

----------------------------------------------------------------------------
(* SpecLoop: validation_loop, one round of validate_step after another     *)

\* lines 947-958: validate_step has returned; unless the validator quits to
\* update itself, the next round starts, after the sleep, with fresh locals
\* and, asyncio.run having closed the loop of the round, in a new event loop
ValidationLoop ==
    /\ rpc \in {"topic_error", "empty", "done"}
    /\ \/ /\ rpc' = "quit"
          /\ UNCHANGED <<responses, tk, random_sample_ids, score_dict, vote, round,
                         bound_loop>>
       \/ /\ rpc' = "sample"
          /\ bound_loop' = CloseLoop(bound_loop)
          /\ round' = (round % MaxRounds) + 1
          /\ random_sample_ids' = <<>>
          /\ score_dict' = <<>>
          /\ vote' = <<"none">>
          /\ responses' = [w \in Workers |-> NoResponse]
          /\ tk' = [w \in Workers |-> TaskInit("idle")]
    /\ UNCHANGED <<ext, GPU_SEMAPHORE, DOWNLOAD_SEMAPHORE, batchVars>>

NextLoop == NextRound \/ ValidationLoop

SpecLoop == InitRound /\ [][NextLoop]_vars

\* asyncio.run and the loop go on whenever a step can be taken
SpecLoopFair == SpecLoop /\ WF_vars(NextLoop)

\* C18: whatever fails inside a round, validate_step returns to
\* validation_loop and the next round is eventually started (or the
\* validator quits to update itself)
C18_NextRoundAlwaysStarts == (rpc = "get_topic") ~> (rpc \in {"sample", "quit"})

\* C19: a round starts only when the round before it has returned with no
\* request pending and no scoring task running, and client.vote is called
\* at most once in a round
C19_RoundsSequential ==
    [][/\ (rpc' = "sample" /\ rpc # "sample") =>
            /\ rpc \in {"topic_error", "empty", "done"}
            /\ \A w \in Workers : tk[w].pc \in {"idle", "done"}
            /\ \A w \in Workers : responses[w] # Pending
       /\ vote' # vote => (vote = <<"none">> \/ rpc' = "sample")
       /\ round' # round => rpc' = "sample"]_vars

\* C19 witness: the second round has voted
C19_Witness ==
    /\ round = 2
    /\ rpc = "done"
    /\ vote[1] = "vote"

----------------------------------------------------------------------------
(* SpecDispatch: the requests of one round, sent through the thread pool, *)
(* for every sample size up to one more than the width of the pool        *)

\* the registered modules of a subnet with one more module than the pool
\* has threads
Pool == 1..(max_workers + 1)

\* the workers either do not answer or answer a submission of one item
DispatchExt ==
    [AnyExt EXCEPT !.answers =
        {NoResponse,
         Videos(<<[id_ok |-> TRUE, dur |-> 120, video |-> 0]>>, num_videos)}]

\* validate_step after line 441: a sample of k modules, in ascending or in
\* descending order of their uids
InitDispatch ==
    /\ \E k \in Pool, descending \in BOOLEAN :
         random_sample_ids =
            [i \in 1..k |-> IF descending THEN max_workers + 2 - i ELSE i]
    /\ rpc = "get_topic"
    /\ score_dict = <<>>
    /\ vote = <<"none">>
    /\ round = 1
    /\ ext = DispatchExt
    /\ responses = [w \in Pool |-> NoResponse]
    /\ tk = [w \in Pool |-> TaskInit("idle")]
    /\ GPU_SEMAPHORE = 1
    /\ DOWNLOAD_SEMAPHORE = DOWNLOAD_SLOTS
    /\ bound_loop = Unbound
    /\ batch = <<>>
    /\ out = <<>>

NextDispatch ==
    \/ GetTopic
    \/ \E w \in Pool : SendRequest(w)
    \/ \E w \in Pool : Respond(w)
    \/ Collect

SpecDispatch == InitDispatch /\ [][NextDispatch]_vars

----------------------------------------------------------------------------
(* SpecFetch: the audit fetches of rounds that score one submission more   *)
(* than DOWNLOAD_SEMAPHORE has slots (neuron.sample_size is configurable)  *)

FetchPool == 1..(DOWNLOAD_SLOTS + 1)

\* a scoring task that has popped its candidate and got its proxy (line 578)
FetchTask ==
    [TaskInit("download_wait") EXCEPT
        !.metadata = <<1>>, !.check_video = TRUE, !.random_metadata = 1,
        !.attempts = <<1>>, !.did = {"gate", "check_video", "proxy"}]

InitFetch ==
    /\ rpc = "score"
    /\ random_sample_ids = [i \in FetchPool |-> i]
    /\ score_dict = <<>>
    /\ vote = <<"none">>
    /\ round = 1
    /\ ext = AnyExt
    /\ responses = [w \in FetchPool |->
                      Videos(<<[id_ok |-> TRUE, dur |-> 120, video |-> 0]>>, num_videos)]
    /\ tk = [w \in FetchPool |-> FetchTask]
    /\ GPU_SEMAPHORE = 1
    /\ DOWNLOAD_SEMAPHORE = DOWNLOAD_SLOTS
    /\ bound_loop = Unbound
    /\ batch = <<>>
    /\ out = <<>>

\* the workers whose fetch is in progress
Fetching == {t \in DOMAIN tk : tk[t].pc = "download"}

\* lines 947-958: every fetch of the round is over; the round ends, its
\* event loop is closed, and the tasks of the next round reach line 578
FetchRound ==
    /\ \A t \in FetchPool : tk[t].pc \notin {"download_wait", "download"}
    /\ tk' = [w \in FetchPool |-> FetchTask]
    /\ bound_loop' = CloseLoop(bound_loop)
    /\ round' = (round % MaxRounds) + 1
    /\ UNCHANGED <<ext, responses, GPU_SEMAPHORE, DOWNLOAD_SEMAPHORE, roundVars,
                   batchVars>>

NextFetch ==
    \/ \E t \in FetchPool : AcquireDownload(t)
    \/ \E t \in FetchPool : Download(t)
    \/ FetchRound

SpecFetch == InitFetch /\ [][NextFetch]_vars

\* at most DOWNLOAD_SLOTS fetches are in progress, and every fetch that has
\* ended, however it ended, has given its slot back
AtMostFiveFetches ==
    /\ Cardinality(Fetching) <= DOWNLOAD_SLOTS
    /\ DOWNLOAD_SEMAPHORE = DOWNLOAD_SLOTS - Cardinality(Fetching)

\* C21: at most 5 fetches are in progress, a slot is released on every way
\* a fetch ends, and a fetch that finds no free slot waits for one: a task
\* leaves the wait for the semaphore only by taking a free slot
C21_SixthFetchWaits ==
    [][/\ AtMostFiveFetches'
       /\ \A t \in FetchPool :
            (tk[t].pc = "download_wait" /\ tk'[t].pc # "download_wait") =>
                /\ DOWNLOAD_SEMAPHORE > 0
                /\ tk'[t].pc = "download"
    ]_vars

\* C21, the part that holds in every round: the bound on the fetches in
\* progress and the release of the slots
C21_AtMostFiveFetches == AtMostFiveFetches

\* C21, the first round with a full semaphore: the sixth fetch has bound the
\* semaphore to the loop of the round and waits
C21_FirstRoundWaits ==
    (round = 1 /\ bound_loop.download = "this") =>
        \A t \in FetchPool :
            tk[t].pc = "done" => "download" \in tk[t].did

\* C36: the result of a submission is decided by the answers to its own
\* requests, whatever the other tasks of the round do and in whatever order:
\* a task ends only on the outcome of its own fetch, never because of the
\* fetches of other tasks that are in progress when it arrives
C36_ResultFromOwnFetch ==
    \A t \in FetchPool : tk[t].pc = "done" => "download" \in tk[t].did

\* the tasks that hold a slot of DOWNLOAD_SEMAPHORE; GPU_SEMAPHORE is held
\* by the tasks of InGuardedSection
HoldsSlot == {t \in DOMAIN tk : tk[t].pc = "download"}

\* C40: GPU_SEMAPHORE is released on every way out of the guarded section,
\* no task holds one of the two semaphores while it waits for the other,
\* and a task that waits for a semaphore leaves its wait only by taking it,
\* so that every task comes to its end and the round to its aggregation
C40_WaitersAcquire ==
    [][round' = round =>
         \A t \in DOMAIN tk :
            /\ (t \in InGuardedSection /\ tk'[t].pc \notin {"random_check", "embed_query"})
                  => GPU_SEMAPHORE' = GPU_SEMAPHORE + 1
            /\ tk[t].pc \in {"gpu_wait", "download_wait"}
                  => (t \notin HoldsSlot /\ t \notin InGuardedSection)
            /\ (tk[t].pc = "gpu_wait" /\ tk'[t].pc # "gpu_wait")
                  => tk'[t].pc = "random_check"
            /\ (tk[t].pc = "download_wait" /\ tk'[t].pc # "download_wait")
                  => tk'[t].pc = "download"
    ]_vars

\* validation_loop goes on for ever, and no fetch is left aside for ever
SpecFetchFair == SpecFetch /\ WF_vars(NextFetch)

\* C40, the part that holds in every round: the fetch stage of a task
\* comes to an end, with a fetch or with the error of the acquire
C40_FetchEnds ==
    (tk[1].pc = "download_wait") ~> (tk[1].pc \notin {"download_wait", "download"})

\* a round in which no scoring task is left aside for ever
SpecRoundFair == SpecRound /\ WF_vars(NextRound)

\* C40, the part that holds in a round: once the scoring tasks are started
\* the round comes to its aggregation
C40_RoundAggregates ==
    (rpc = "score") ~> (rpc \in {"empty", "set_weights", "crashed"})

====
